---- MODULE Spec2Model ----
(***************************************************************************)
(* Edgy: detection of missing edge-case states in exported design screens. *)
(* The module models the batch analyzer (backend/analyzer/analyze.js) and  *)
(* the UI's inline analyzeLocally (plugin/src/ui.tsx and its later         *)
(* variant), with strings as sequences of one-character strings so that    *)
(* substring search, lower-casing and JSON serialisation are computed.     *)
(***************************************************************************)
EXTENDS Integers, Sequences, FiniteSets, TLC

VARIABLES
    patterns,       \* backend knowledge base, loaded once at start-up
    uiVariant,      \* which build of the UI is running
    screens,        \* the screen list handed to the analyzers
    backendResult,  \* AnalysisResult of analyzeScreens, or Null
    uiResult,       \* AnalysisResult of analyzeLocally, or Null
    uiError,        \* exception thrown by analyzeLocally, or "none"
    clock,          \* the wall clock read by new Date()
    history,        \* the analyzer calls made so far: analyzer, input and result
    \* the batch run of analyze.js
    screensDir,     \* screens/: whether it exists, and its files in readdir order
    resultsDir,     \* results/: whether it exists, and its files
    pc,             \* where the batch run stands
    fileIndex,      \* position of main's loop in screenFiles
    uncaught,       \* the exception that ended the batch run, or "none"
    \* the plugin (code.ts) and the part of the UI's state it drives
    pluginVariant,  \* which build of the plugin is running
    selection,      \* figma.currentPage.selection, as exportSelectedFrames sees it
    toPlugin,       \* messages posted by the UI, not yet handled by the plugin
    toUi,           \* messages posted by the plugin, not yet handled by the UI
    lastAnalysisResult,
    enrichedScreensCache,
    enrichedScreens,
    error,          \* Null, or the message shown, as [message |-> ...]
    isAnalyzing,
    frameCount,     \* the UI's count of selected frames, as last told by the plugin
    fonts,          \* the font families figma.loadFontAsync can load
    page,           \* the nodes appended to figma.currentPage, in order
    notifications,  \* the texts shown by figma.notify, in order
    awaiting,       \* the handlers of figma.ui.onmessage suspended at an await
    requested,      \* how many requests other than 'analyze' the UI has posted
    \* one call of analyzeScreens, step by step
    walkPc,         \* the function analyzeScreens is in, "none" when it is not running
    screenIndex,    \* position of screens.map in the list
    callStack,      \* the calls of getTextContent in progress: node and next child of each
    accumulatedNames, \* the array `accumulated` that the calls of getTextContent push to
    visits,         \* ids of the nodes the running walk has pushed, in order
    \* one call of the component lookup
    lookup          \* Null, or the name looked up and what the lookup returned

batchVars == <<screensDir, resultsDir, pc, fileIndex, uncaught>>

pluginVars ==
    <<pluginVariant, selection, toPlugin, toUi, lastAnalysisResult, enrichedScreensCache,
      enrichedScreens, error, isAnalyzing>>

reportVars == <<frameCount, fonts, page, notifications, awaiting, requested>>

walkVars == <<walkPc, screenIndex, callStack, accumulatedNames, visits>>

vars ==
    <<patterns, uiVariant, screens, backendResult, uiResult, uiError, clock, history,
      batchVars, pluginVars, reportVars, walkVars, lookup>>

\* JavaScript null, comparable with records
Null == [null |-> TRUE]

\* a directory that does not exist
Absent == [exists |-> FALSE, files |-> <<>>]

(***************************************************************************)
(* Bounds of the model.                                                    *)
(***************************************************************************)
MaxScreens == 2

(***************************************************************************)
(* JavaScript string primitives.                                           *)
(***************************************************************************)
\* String.prototype.toLowerCase on the letters A..Z
LowerOf ==
    "A" :> "a" @@ "B" :> "b" @@ "C" :> "c" @@ "D" :> "d" @@ "E" :> "e" @@ "F" :> "f"
    @@ "G" :> "g" @@ "H" :> "h" @@ "I" :> "i" @@ "J" :> "j" @@ "K" :> "k" @@ "L" :> "l"
    @@ "M" :> "m" @@ "N" :> "n" @@ "O" :> "o" @@ "P" :> "p" @@ "Q" :> "q" @@ "R" :> "r"
    @@ "S" :> "s" @@ "T" :> "t" @@ "U" :> "u" @@ "V" :> "v" @@ "W" :> "w" @@ "X" :> "x"
    @@ "Y" :> "y" @@ "Z" :> "z"

toLowerCase(s) ==
    [i \in 1..Len(s) |-> IF s[i] \in DOMAIN LowerOf THEN LowerOf[s[i]] ELSE s[i]] \o <<>>

\* String.prototype.toUpperCase on the letters a..z
toUpperCase(s) ==
    [i \in 1..Len(s) |->
        IF \E c \in DOMAIN LowerOf : LowerOf[c] = s[i]
        THEN CHOOSE c \in DOMAIN LowerOf : LowerOf[c] = s[i]
        ELSE s[i]] \o <<>>

includes(text, needle) ==
    \E i \in 0..(Len(text) - Len(needle)) : \A j \in 1..Len(needle) : text[i + j] = needle[j]

replaceDashes(s) == [i \in 1..Len(s) |-> IF s[i] = "-" THEN " " ELSE s[i]] \o <<>>

endsWith(s, suffix) ==
    /\ Len(suffix) <= Len(s)
    /\ \A j \in 1..Len(suffix) : s[Len(s) - Len(suffix) + j] = suffix[j]

\* String.prototype.replace with a string pattern: the first occurrence only
replace(s, pattern, replacement) ==
    LET found == {i \in 0..(Len(s) - Len(pattern)) :
                    \A j \in 1..Len(pattern) : s[i + j] = pattern[j]}
    IN  IF found = {} THEN s
        ELSE LET at == CHOOSE i \in found : \A k \in found : i <= k
             IN  SubSeq(s, 1, at) \o replacement \o SubSeq(s, at + Len(pattern) + 1, Len(s))

RECURSIVE join(_, _)
join(parts, sep) ==
    IF parts = <<>> THEN <<>>
    ELSE IF Len(parts) = 1 THEN parts[1]
    ELSE parts[1] \o sep \o join(Tail(parts), sep)

RECURSIVE flat(_)
flat(lists) == IF lists = <<>> THEN <<>> ELSE Head(lists) \o flat(Tail(lists))

(***************************************************************************)
(* JSON.stringify of the exported node data (NodeData: id, name, type,     *)
(* visible, and children only when the node has some).                     *)
(***************************************************************************)
jsonEscape(s) ==
    flat([i \in 1..Len(s) |->
            IF s[i] = "\"" THEN <<"\\", "\"">>
            ELSE IF s[i] = "\\" THEN <<"\\", "\\">>
            ELSE <<s[i]>>])

jsonString(s) == <<"\"">> \o jsonEscape(s) \o <<"\"">>

RECURSIVE stringifyNode(_), stringifyList(_)
stringifyNode(node) ==
    <<"{">> \o jsonString(<<"i","d">>) \o <<":">> \o jsonString(node.id)
    \o <<",">> \o jsonString(<<"n","a","m","e">>) \o <<":">> \o jsonString(node.name)
    \o <<",">> \o jsonString(<<"t","y","p","e">>) \o <<":">> \o jsonString(node.type)
    \o <<",">> \o jsonString(<<"v","i","s","i","b","l","e">>) \o <<":">>
    \o (IF node.visible THEN <<"t","r","u","e">> ELSE <<"f","a","l","s","e">>)
    \o (IF "children" \in DOMAIN node
        THEN <<",">> \o jsonString(<<"c","h","i","l","d","r","e","n">>) \o <<":">> \o stringifyList(node.children)
        ELSE <<>>)
    \o <<"}">>

stringifyList(nodes) ==
    <<"[">> \o join([i \in 1..Len(nodes) |-> stringifyNode(nodes[i])], <<",">>) \o <<"]">>

(***************************************************************************)
(* The pattern tables compiled into analyzeLocally, as Object.entries      *)
(* enumerates them: the first build of the UI (ui.tsx) and the later one.  *)
(***************************************************************************)
\* ui.tsx
LocalPatternsV1 ==
    <<
    [id |-> <<"f","o","r","m","-","s","u","b","m","i","s","s","i","o","n">>,
     pattern |-> [
        keywords |-> <<<<"f","o","r","m">>, <<"s","u","b","m","i","t">>, <<"s","a","v","e">>, <<"i","n","p","u","t">>,
                        <<"f","i","e","l","d">>, <<"l","o","g","i","n">>, <<"s","i","g","n","u","p">>>>,
        edgeCases |-> <<
            [id |-> <<"f","o","r","m","-","v","a","l","i","d","a","t","i","o","n","-","e","r","r","o","r">>, name |-> <<"V","a","l","i","d","a","t","i","o","n"," ","E","r","r","o","r"," ","S","t","a","t","e">>,
             severity |-> "critical", suggestedComponents |-> <<<<"A","l","e","r","t">>, <<"I","n","p","u","t"," ","(","e","r","r","o","r",")">>>>],
            [id |-> <<"f","o","r","m","-","l","o","a","d","i","n","g">>, name |-> <<"S","u","b","m","i","s","s","i","o","n"," ","L","o","a","d","i","n","g">>,
             severity |-> "critical", suggestedComponents |-> <<<<"B","u","t","t","o","n"," ","(","l","o","a","d","i","n","g",")">>>>],
            [id |-> <<"f","o","r","m","-","s","u","c","c","e","s","s">>, name |-> <<"S","u","c","c","e","s","s"," ","C","o","n","f","i","r","m","a","t","i","o","n">>,
             severity |-> "warning", suggestedComponents |-> <<<<"T","o","a","s","t">>, <<"A","l","e","r","t">>>>] >>]],
    [id |-> <<"d","a","t","a","-","l","i","s","t">>,
     pattern |-> [
        keywords |-> <<<<"l","i","s","t">>, <<"t","a","b","l","e">>, <<"g","r","i","d">>, <<"f","e","e","d">>,
                        <<"i","t","e","m","s">>, <<"c","a","r","d","s">>>>,
        edgeCases |-> <<
            [id |-> <<"l","i","s","t","-","e","m","p","t","y">>, name |-> <<"E","m","p","t","y"," ","S","t","a","t","e">>,
             severity |-> "critical", suggestedComponents |-> <<<<"E","m","p","t","y","S","t","a","t","e">>, <<"C","a","r","d">>>>],
            [id |-> <<"l","i","s","t","-","l","o","a","d","i","n","g">>, name |-> <<"L","o","a","d","i","n","g"," ","S","t","a","t","e">>,
             severity |-> "critical", suggestedComponents |-> <<<<"S","k","e","l","e","t","o","n">>>>],
            [id |-> <<"l","i","s","t","-","e","r","r","o","r">>, name |-> <<"E","r","r","o","r"," ","S","t","a","t","e">>,
             severity |-> "critical", suggestedComponents |-> <<<<"A","l","e","r","t"," ","(","e","r","r","o","r",")">>>>] >>]],
    [id |-> <<"s","e","a","r","c","h","-","f","i","l","t","e","r">>,
     pattern |-> [
        keywords |-> <<<<"s","e","a","r","c","h">>, <<"f","i","l","t","e","r">>, <<"q","u","e","r","y">>, <<"f","i","n","d">>>>,
        edgeCases |-> <<
            [id |-> <<"s","e","a","r","c","h","-","n","o","-","r","e","s","u","l","t","s">>, name |-> <<"N","o"," ","R","e","s","u","l","t","s"," ","F","o","u","n","d">>,
             severity |-> "critical", suggestedComponents |-> <<<<"E","m","p","t","y","S","t","a","t","e">>>>],
            [id |-> <<"s","e","a","r","c","h","-","l","o","a","d","i","n","g">>, name |-> <<"S","e","a","r","c","h"," ","L","o","a","d","i","n","g">>,
             severity |-> "warning", suggestedComponents |-> <<<<"S","k","e","l","e","t","o","n">>>>] >>]],
    [id |-> <<"d","e","s","t","r","u","c","t","i","v","e","-","a","c","t","i","o","n">>,
     pattern |-> [
        keywords |-> <<<<"d","e","l","e","t","e">>, <<"r","e","m","o","v","e">>, <<"c","l","e","a","r">>, <<"d","i","s","c","a","r","d">>>>,
        edgeCases |-> <<
            [id |-> <<"d","e","s","t","r","u","c","t","i","v","e","-","c","o","n","f","i","r","m","a","t","i","o","n">>, name |-> <<"C","o","n","f","i","r","m","a","t","i","o","n"," ","D","i","a","l","o","g">>,
             severity |-> "critical", suggestedComponents |-> <<<<"A","l","e","r","t","D","i","a","l","o","g">>>>] >>]]
    >>

\* later build of the UI
LocalPatternsV2 ==
    <<
    [id |-> <<"f","o","r","m","-","s","u","b","m","i","s","s","i","o","n">>,
     pattern |-> [
        keywords |-> <<<<"f","o","r","m">>, <<"s","u","b","m","i","t">>, <<"s","a","v","e">>, <<"i","n","p","u","t">>,
                        <<"f","i","e","l","d">>, <<"l","o","g","i","n">>, <<"s","i","g","n","u","p">>, <<"r","e","g","i","s","t","e","r">>,
                        <<"e","m","a","i","l">>, <<"p","a","s","s","w","o","r","d">>>>,
        edgeCases |-> <<
            [id |-> <<"f","o","r","m","-","v","a","l","i","d","a","t","i","o","n","-","e","r","r","o","r">>, name |-> <<"V","a","l","i","d","a","t","i","o","n"," ","E","r","r","o","r"," ","S","t","a","t","e">>,
             severity |-> "critical", suggestedComponents |-> <<<<"A","l","e","r","t">>, <<"I","n","p","u","t">>>>],
            [id |-> <<"f","o","r","m","-","l","o","a","d","i","n","g">>, name |-> <<"S","u","b","m","i","s","s","i","o","n"," ","L","o","a","d","i","n","g">>,
             severity |-> "critical", suggestedComponents |-> <<<<"B","u","t","t","o","n">>, <<"P","r","o","g","r","e","s","s">>>>],
            [id |-> <<"f","o","r","m","-","s","u","c","c","e","s","s">>, name |-> <<"S","u","c","c","e","s","s"," ","C","o","n","f","i","r","m","a","t","i","o","n">>,
             severity |-> "warning", suggestedComponents |-> <<<<"T","o","a","s","t">>, <<"A","l","e","r","t">>>>] >>]],
    [id |-> <<"d","a","t","a","-","l","i","s","t">>,
     pattern |-> [
        keywords |-> <<<<"l","i","s","t">>, <<"t","a","b","l","e">>, <<"g","r","i","d">>, <<"f","e","e","d">>,
                        <<"i","t","e","m","s">>, <<"c","a","r","d","s">>, <<"d","a","s","h","b","o","a","r","d">>>>,
        edgeCases |-> <<
            [id |-> <<"l","i","s","t","-","e","m","p","t","y">>, name |-> <<"E","m","p","t","y"," ","S","t","a","t","e">>,
             severity |-> "critical", suggestedComponents |-> <<<<"C","a","r","d">>>>],
            [id |-> <<"l","i","s","t","-","l","o","a","d","i","n","g">>, name |-> <<"L","o","a","d","i","n","g"," ","S","t","a","t","e">>,
             severity |-> "critical", suggestedComponents |-> <<<<"S","k","e","l","e","t","o","n">>>>],
            [id |-> <<"l","i","s","t","-","e","r","r","o","r">>, name |-> <<"E","r","r","o","r"," ","S","t","a","t","e">>,
             severity |-> "critical", suggestedComponents |-> <<<<"A","l","e","r","t">>>>] >>]],
    [id |-> <<"s","e","a","r","c","h","-","f","i","l","t","e","r">>,
     pattern |-> [
        keywords |-> <<<<"s","e","a","r","c","h">>, <<"f","i","l","t","e","r">>, <<"q","u","e","r","y">>, <<"f","i","n","d">>>>,
        edgeCases |-> <<
            [id |-> <<"s","e","a","r","c","h","-","n","o","-","r","e","s","u","l","t","s">>, name |-> <<"N","o"," ","R","e","s","u","l","t","s"," ","F","o","u","n","d">>,
             severity |-> "critical", suggestedComponents |-> <<<<"C","a","r","d">>>>],
            [id |-> <<"s","e","a","r","c","h","-","l","o","a","d","i","n","g">>, name |-> <<"S","e","a","r","c","h"," ","L","o","a","d","i","n","g">>,
             severity |-> "warning", suggestedComponents |-> <<<<"S","k","e","l","e","t","o","n">>>>] >>]],
    [id |-> <<"d","e","s","t","r","u","c","t","i","v","e","-","a","c","t","i","o","n">>,
     pattern |-> [
        keywords |-> <<<<"d","e","l","e","t","e">>, <<"r","e","m","o","v","e">>, <<"c","l","e","a","r">>, <<"d","i","s","c","a","r","d">>,
                        <<"c","a","n","c","e","l">>>>,
        edgeCases |-> <<
            [id |-> <<"d","e","s","t","r","u","c","t","i","v","e","-","c","o","n","f","i","r","m","a","t","i","o","n">>, name |-> <<"C","o","n","f","i","r","m","a","t","i","o","n"," ","D","i","a","l","o","g">>,
             severity |-> "critical", suggestedComponents |-> <<<<"A","l","e","r","t","D","i","a","l","o","g">>>>] >>]],
    [id |-> <<"n","a","v","i","g","a","t","i","o","n">>,
     pattern |-> [
        keywords |-> <<<<"m","e","n","u">>, <<"n","a","v">>, <<"s","i","d","e","b","a","r">>, <<"h","e","a","d","e","r">>,
                        <<"h","o","m","e">>>>,
        edgeCases |-> <<
            [id |-> <<"n","a","v","-","o","f","f","l","i","n","e">>, name |-> <<"O","f","f","l","i","n","e"," ","S","t","a","t","e">>,
             severity |-> "info", suggestedComponents |-> <<<<"A","l","e","r","t">>, <<"T","o","a","s","t">>>>] >>]]
    >>

UiVariants == {"v1", "v2"}

localPatterns(variant) == IF variant = "v1" THEN LocalPatternsV1 ELSE LocalPatternsV2

(***************************************************************************)
(* Knowledge bases the backend may be started with.  The backend reads      *)
(* knowledge/edge-case-patterns.json once and never validates it; each      *)
(* value below is Object.entries(patterns.patterns) of one such file.       *)
(***************************************************************************)
\* the table of the UI, in the schema of the backend's JSON file
KbOfLocal ==
    [i \in 1..Len(LocalPatternsV2) |->
        [id |-> LocalPatternsV2[i].id,
         pattern |-> [detectionKeywords |-> LocalPatternsV2[i].pattern.keywords,
                      requiredEdgeCases |-> LocalPatternsV2[i].pattern.edgeCases]]]

\* a hand-written file: capitalised keywords and component names, descriptions
KbCustomWith(loadingSeverity) ==
    <<
    [id |-> <<"f","o","r","m","-","s","u","b","m","i","s","s","i","o","n">>,
     pattern |-> [
        detectionKeywords |-> <<<<"F","o","r","m">>, <<"L","o","g","i","n">>>>,
        requiredEdgeCases |-> <<
            [id |-> <<"f","o","r","m","-","v","a","l","i","d","a","t","i","o","n","-","e","r","r","o","r">>, name |-> <<"V","a","l","i","d","a","t","i","o","n"," ","E","r","r","o","r"," ","S","t","a","t","e">>,
             description |-> <<"S","h","o","w"," ","i","n","l","i","n","e"," ","v","a","l","i","d","a","t","i","o","n"," ","m","e","s","s","a","g","e","s">>,
             severity |-> "critical", suggestedComponents |-> <<<<"I","n","p","u","t">>>>],
            [id |-> <<"f","o","r","m","-","l","o","a","d","i","n","g">>, name |-> <<"S","u","b","m","i","s","s","i","o","n"," ","L","o","a","d","i","n","g">>,
             severity |-> loadingSeverity, suggestedComponents |-> <<<<"B","u","t","t","o","n">>>>],
            [id |-> <<"f","o","r","m","-","s","u","c","c","e","s","s">>, name |-> <<"S","u","c","c","e","s","s"," ","C","o","n","f","i","r","m","a","t","i","o","n">>,
             description |-> <<>>,
             severity |-> "info", suggestedComponents |-> <<<<"S","o","n","n","e","r">>>>] >>]],
    [id |-> <<"d","a","t","a","-","l","i","s","t">>,
     pattern |-> [
        detectionKeywords |-> <<<<"L","i","s","t">>, <<"T","a","b","l","e">>>>,
        requiredEdgeCases |-> <<
            [id |-> <<"l","i","s","t","-","e","m","p","t","y">>, name |-> <<"E","m","p","t","y"," ","S","t","a","t","e">>,
             severity |-> "info", suggestedComponents |-> <<<<"C","a","r","d">>>>] >>]]
    >>

KbCustom == KbCustomWith("critical")

\* the same file with a severity outside critical | warning | info
KbUnvalidated == KbCustomWith("high")

KnowledgeBases == {KbOfLocal, KbCustom, KbUnvalidated}

\* a knowledge-base file in which one edge-case id continues another after a dash
KbDashedIds ==
    <<
    [id |-> <<"d","a","t","a","-","l","i","s","t">>,
     pattern |-> [
        detectionKeywords |-> <<<<"l","i","s","t">>>>,
        requiredEdgeCases |-> <<
            [id |-> <<"r","e","t","r","y">>, name |-> <<"R","e","t","r","y">>,
             description |-> <<"O","f","f","e","r"," ","t","o"," ","t","r","y"," ","a","g","a","i","n">>,
             severity |-> "warning", suggestedComponents |-> <<<<"B","u","t","t","o","n">>>>],
            [id |-> <<"r","e","t","r","y","-","l","a","t","e","r">>, name |-> <<"R","e","t","r","y"," ","L","a","t","e","r">>,
             description |-> <<"S","a","y"," ","w","h","e","n"," ","t","o"," ","c","o","m","e"," ","b","a","c","k">>,
             severity |-> "info", suggestedComponents |-> <<<<"C","a","r","d">>>>] >>]]
    >>

(***************************************************************************)
(* Screen Flattener (backend): analyze.js getTextContent.                   *)
(***************************************************************************)
RECURSIVE getTextContent(_, _), getTextContentOfAll(_, _)
getTextContent(node, accumulated) ==
    IF node = Null THEN accumulated
    ELSE LET pushed == Append(accumulated, toLowerCase(node.name))
         IN  IF "children" \in DOMAIN node
             THEN getTextContentOfAll(node.children, pushed)
             ELSE pushed

getTextContentOfAll(children, accumulated) ==
    IF children = <<>> THEN accumulated
    ELSE getTextContentOfAll(Tail(children), getTextContent(Head(children), accumulated))

\* a slip: the accumulator outlives the call and still holds the names
\* pushed for the screens of the previous run
textContentOfShared(screen) ==
    LET left == IF backendResult = Null THEN <<>>
                ELSE [s \in 1..Len(backendResult.screens) |->
                        toLowerCase(backendResult.screens[s].screenName)]
    IN  join(getTextContent(screen, left), <<" ">>)

textContentOf(screen) == join(getTextContent(screen, <<>>), <<" ">>)

(***************************************************************************)
(* Pattern Detector (backend): analyze.js detectPatterns.                   *)
(***************************************************************************)
\* a slip: the keyword is compared as written in the file
hasPatternAsWritten(textContent, pattern) ==
    \E k \in 1..Len(pattern.detectionKeywords) :
        includes(textContent, pattern.detectionKeywords[k])

hasPattern(textContent, pattern) ==
    \E k \in 1..Len(pattern.detectionKeywords) :
        includes(textContent, toLowerCase(pattern.detectionKeywords[k]))

detectPatterns(screen) ==
    LET textContent == textContentOf(screen)
        Detected(entry) == hasPattern(textContent, entry.pattern)
    IN  SelectSeq(patterns, Detected)

(***************************************************************************)
(* Edge-Case Checker (backend): analyze.js checkMissingEdgeCases.           *)
(***************************************************************************)
commonIndicators ==
    <<<<"e","r","r","o","r">>, <<"l","o","a","d","i","n","g">>, <<"e","m","p","t","y">>, <<"s","k","e","l","e","t","o","n">>, <<"s","p","i","n","n","e","r">>, <<"a","l","e","r","t">>, <<"t","o","a","s","t">>>>

\* a slip: the suggested components are left out of the indicators
edgeCaseIndicatorsOfId(edgeCase) == <<replaceDashes(edgeCase.id)>>

edgeCaseIndicators(edgeCase) ==
    <<replaceDashes(edgeCase.id)>>
    \o [c \in 1..Len(edgeCase.suggestedComponents) |->
            toLowerCase(edgeCase.suggestedComponents[c])]

hasEdgeCase(textContent, edgeCase) ==
    \E k \in 1..Len(edgeCaseIndicators(edgeCase)) :
        includes(textContent, toLowerCase(edgeCaseIndicators(edgeCase)[k]))

\* a slip: the shorter list of the UI
hasCommonIndicatorOfFour(textContent) ==
    \E k \in 1..4 : includes(textContent, commonIndicators[k])

hasCommonIndicator(textContent) ==
    \E k \in 1..Len(commonIndicators) : includes(textContent, commonIndicators[k])

describe(edgeCase) ==
    IF "description" \in DOMAIN edgeCase /\ edgeCase.description # <<>>
    THEN edgeCase.description
    ELSE <<"M","i","s","s","i","n","g"," ">> \o edgeCase.name

\* a slip: every issue is filed as critical
newIssueAsCritical(screen, patternId, edgeCase) ==
    [id |-> edgeCase.id \o <<"-">> \o screen.id,
     patternId |-> patternId,
     edgeCaseId |-> edgeCase.id,
     name |-> edgeCase.name,
     description |-> describe(edgeCase),
     severity |-> "critical",
     suggestedComponents |-> edgeCase.suggestedComponents,
     screenId |-> screen.id,
     screenName |-> screen.name]

newIssue(screen, patternId, edgeCase) ==
    [id |-> edgeCase.id \o <<"-">> \o screen.id,
     patternId |-> patternId,
     edgeCaseId |-> edgeCase.id,
     name |-> edgeCase.name,
     description |-> describe(edgeCase),
     severity |-> edgeCase.severity,
     suggestedComponents |-> edgeCase.suggestedComponents,
     screenId |-> screen.id,
     screenName |-> screen.name]

isMissing(textContent, edgeCase) ==
    ~hasEdgeCase(textContent, edgeCase) /\ ~hasCommonIndicator(textContent)

missingEdgeCasesOf(screen, textContent, entry) ==
    LET required == entry.pattern.requiredEdgeCases
    IN  flat([e \in 1..Len(required) |->
                IF isMissing(textContent, required[e])
                THEN <<newIssue(screen, entry.id, required[e])>>
                ELSE <<>>])

\* a slip: the loop walks the whole table instead of the detected patterns
checkEveryPattern(screen, detectedPatterns) ==
    LET textContent == textContentOf(screen)
    IN  flat([p \in 1..Len(patterns) |-> missingEdgeCasesOf(screen, textContent, patterns[p])])

checkMissingEdgeCases(screen, detectedPatterns) ==
    LET textContent == textContentOf(screen)
    IN  flat([p \in 1..Len(detectedPatterns) |->
                missingEdgeCasesOf(screen, textContent, detectedPatterns[p])])

(***************************************************************************)
(* Flow Analyzer and Aggregator (backend): analyze.js analyzeScreens.       *)
(***************************************************************************)
hasNoConnections(s) == "connections" \notin DOMAIN s \/ Len(s.connections) = 0

deadEndsOf(list) ==
    LET names == [i \in 1..Len(list) |-> list[i].name]
        kept  == SelectSeq([i \in 1..Len(list) |-> i], LAMBDA i : hasNoConnections(list[i]))
    IN  [k \in 1..Len(kept) |-> names[kept[k]]]

connectionsOrNone(s) == IF "connections" \in DOMAIN s THEN s.connections ELSE <<>>

targetedIds(list) ==
    LET targets == flat([i \in 1..Len(list) |->
                            [c \in 1..Len(connectionsOrNone(list[i])) |->
                                connectionsOrNone(list[i])[c].targetFrameId]])
    IN  {targets[t] : t \in 1..Len(targets)}

orphanScreensOf(list) ==
    LET kept == SelectSeq([i \in 1..Len(list) |-> i],
                       LAMBDA i : list[i].id \notin targetedIds(list))
    IN  [k \in 1..Len(kept) |-> list[kept[k]].name]

\* a slip: the issues of the first screen only
issuesOfFirstScreen(screenAnalyses) ==
    IF screenAnalyses = <<>> THEN <<>> ELSE screenAnalyses[1].issues

\* screenAnalyses.flatMap(s => s.issues)
flatMapIssues(screenAnalyses) ==
    flat([s \in 1..Len(screenAnalyses) |-> screenAnalyses[s].issues])

\* a slip: the filter forgets the severity it was asked for
countAnySeverity(allIssues, severity) == Len(allIssues)

countSeverity(allIssues, severity) ==
    Len(SelectSeq(allIssues, LAMBDA i : i.severity = severity))

\* a slip: missingStates names the critical issues only
analyzeScreenCriticalStates(screen) ==
    LET detectedPatterns == detectPatterns(screen)
        issues == checkMissingEdgeCases(screen, detectedPatterns)
        critical == SelectSeq(issues, LAMBDA i : i.severity = "critical")
    IN  [screenId |-> screen.id,
         screenName |-> screen.name,
         detectedPatterns |-> [p \in 1..Len(detectedPatterns) |-> detectedPatterns[p].id],
         issues |-> issues,
         missingStates |-> [i \in 1..Len(critical) |-> critical[i].name]]

analyzeScreen(screen) ==
    LET detectedPatterns == detectPatterns(screen)
        issues == checkMissingEdgeCases(screen, detectedPatterns)
    IN  [screenId |-> screen.id,
         screenName |-> screen.name,
         detectedPatterns |-> [p \in 1..Len(detectedPatterns) |-> detectedPatterns[p].id],
         issues |-> issues,
         missingStates |-> [i \in 1..Len(issues) |-> issues[i].name]]

\* a slip: the accumulator is shared by the screens of a run, so that a
\* screen is searched together with the nodes of the screens before it
analyzeScreensSharingText(list, now) ==
    LET before(s) == flat([b \in 1..(s - 1) |-> list[b].children])
        seen(s) == [list[s] EXCEPT !.children = before(s) \o list[s].children]
        screenAnalyses == [s \in 1..Len(list) |-> analyzeScreen(seen(s))]
        allIssues == flatMapIssues(screenAnalyses)
    IN  [timestamp |-> now,
         totalScreens |-> Len(list),
         totalIssues |-> Len(allIssues),
         criticalCount |-> countSeverity(allIssues, "critical"),
         warningCount |-> countSeverity(allIssues, "warning"),
         infoCount |-> countSeverity(allIssues, "info"),
         screens |-> screenAnalyses,
         flowIssues |-> [deadEnds |-> deadEndsOf(list),
                         orphanScreens |-> orphanScreensOf(list)]]

analyzeScreens(list, now) ==
    LET screenAnalyses == [s \in 1..Len(list) |-> analyzeScreen(list[s])]
        allIssues == flatMapIssues(screenAnalyses)
    IN  [timestamp |-> now,
         totalScreens |-> Len(list),
         totalIssues |-> Len(allIssues),
         criticalCount |-> countSeverity(allIssues, "critical"),
         warningCount |-> countSeverity(allIssues, "warning"),
         infoCount |-> countSeverity(allIssues, "info"),
         screens |-> screenAnalyses,
         flowIssues |-> [deadEnds |-> deadEndsOf(list),
                         orphanScreens |-> orphanScreensOf(list)]]

(***************************************************************************)
(* The UI's own analyzer: analyzeLocally of ui.tsx and of its later build.  *)
(***************************************************************************)
allTextOf(screen) ==
    LET screenName == toLowerCase(screen.name)
        childNames == toLowerCase(stringifyList(screen.children))
    IN  screenName \o <<" ">> \o childNames

localHasPattern(allText, pattern) ==
    \E k \in 1..Len(pattern.keywords) : includes(allText, pattern.keywords[k])

localHasEdgeCase(allText) ==
    \/ includes(allText, <<"e","r","r","o","r">>)
    \/ includes(allText, <<"l","o","a","d","i","n","g">>)
    \/ includes(allText, <<"e","m","p","t","y">>)
    \/ includes(allText, <<"s","k","e","l","e","t","o","n">>)

localIssue(screen, patternId, edgeCase) ==
    [id |-> edgeCase.id \o <<"-">> \o screen.id,
     patternId |-> patternId,
     edgeCaseId |-> edgeCase.id,
     name |-> edgeCase.name,
     description |-> <<"M","i","s","s","i","n","g"," ">> \o toLowerCase(edgeCase.name) \o <<" ","f","o","r"," ">> \o patternId,
     severity |-> edgeCase.severity,
     suggestedComponents |-> edgeCase.suggestedComponents,
     screenId |-> screen.id,
     screenName |-> screen.name]

localDetected(table, allText) ==
    SelectSeq(table, LAMBDA entry : localHasPattern(allText, entry.pattern))

localIssues(screen, allText, detected) ==
    flat([p \in 1..Len(detected) |->
            flat([e \in 1..Len(detected[p].pattern.edgeCases) |->
                    IF ~localHasEdgeCase(allText)
                    THEN <<localIssue(screen, detected[p].id, detected[p].pattern.edgeCases[e])>>
                    ELSE <<>>])])

analyzeScreenLocally(table, screen) ==
    LET allText == allTextOf(screen)
        detected == localDetected(table, allText)
        issues == localIssues(screen, allText, detected)
    IN  [screenId |-> screen.id,
         screenName |-> screen.name,
         detectedPatterns |-> [p \in 1..Len(detected) |-> detected[p].id],
         issues |-> issues,
         missingStates |-> [i \in 1..Len(issues) |-> issues[i].name]]

\* s.connections.length on a screen without connections is a TypeError
analyzeLocallyThrows(list) == \E i \in 1..Len(list) : "connections" \notin DOMAIN list[i]

localDeadEndsOf(list) ==
    LET kept == SelectSeq([i \in 1..Len(list) |-> i], LAMBDA i : Len(list[i].connections) = 0)
    IN  [k \in 1..Len(kept) |-> list[kept[k]].name]

analyzeLocally(table, list, now) ==
    LET screenAnalyses == [s \in 1..Len(list) |-> analyzeScreenLocally(table, list[s])]
        allIssues == flatMapIssues(screenAnalyses)
    IN  [timestamp |-> now,
         totalScreens |-> Len(list),
         totalIssues |-> Len(allIssues),
         criticalCount |-> countSeverity(allIssues, "critical"),
         warningCount |-> countSeverity(allIssues, "warning"),
         infoCount |-> countSeverity(allIssues, "info"),
         screens |-> screenAnalyses,
         flowIssues |-> [deadEnds |-> localDeadEndsOf(list),
                         orphanScreens |-> <<>>]]

(***************************************************************************)
(* Inputs: exported screens.  NodeData carries children only when the node  *)
(* has some; a screen exported by the plugin always carries connections,    *)
(* a screen file read by the backend may leave them out.                    *)
(***************************************************************************)
Leaf(id, name, type, visible) ==
    [id |-> id, name |-> name, type |-> type, visible |-> visible]

Parent(id, name, type, visible, children) ==
    [id |-> id, name |-> name, type |-> type, visible |-> visible, children |-> children]

Screen(id, name, dims, children, connections) ==
    [id |-> id, name |-> name, width |-> dims[1], height |-> dims[2],
     children |-> children, connections |-> connections]

ScreenWithoutConnections(id, name, dims, children) ==
    [id |-> id, name |-> name, width |-> dims[1], height |-> dims[2], children |-> children]

Connection(triggerId, targetId) ==
    [triggerNodeId |-> triggerId, triggerNodeName |-> <<"N","e","x","t">>,
     targetFrameId |-> targetId, targetFrameName |-> <<"T","a","r","g","e","t">>]

Phone == <<375, 812>>

Desktop == <<1440, 900>>

NoChildren == <<>>

SubmitButton == <<Leaf(<<"1",":","2">>, <<"S","u","b","m","i","t"," ","B","u","t","t","o","n">>, <<"T","E","X","T">>, TRUE)>>

RowsWithSpinner ==
    <<Parent(<<"1",":","3">>, <<"R","o","w","s">>, <<"F","R","A","M","E">>, TRUE,
             <<Leaf(<<"1",":","4">>, <<"S","p","i","n","n","e","r">>, <<"I","N","S","T","A","N","C","E">>, TRUE)>>)>>

\* the same names in the same places; ids, types and visibility differ
RowsWithSpinnerAsTable ==
    <<Parent(<<"7",":","3">>, <<"R","o","w","s">>, <<"T","A","B","L","E">>, FALSE,
             <<Leaf(<<"7",":","4">>, <<"S","p","i","n","n","e","r">>, <<"F","R","A","M","E">>, FALSE)>>)>>

SuccessBanner == <<Leaf(<<"1",":","5">>, <<"S","u","c","c","e","s","s">>, <<"T","E","X","T">>, TRUE)>>

ScreenNames == {<<"L","o","g","i","n"," ","F","o","r","m">>, <<"P","r","o","f","i","l","e">>}

ChildLists == {NoChildren, SubmitButton}

ScreenIds == <<<<"1","0",":","1">>, <<"1","0",":","2">>, <<"1","0",":","3">>, <<"1","0",":","4">>>>

\* what AddScreen may append as the screen at position pos
ScreenPool(pos) ==
    {Screen(ScreenIds[pos], name, Phone, children, <<>>) :
        name \in ScreenNames, children \in ChildLists}
    \cup {Screen(ScreenIds[pos], <<"U","s","e","r"," ","L","i","s","t"," ","(","l","o","a","d","i","n","g"," ","s","k","e","l","e","t","o","n",")">>, Phone, NoChildren, <<>>),
          Screen(ScreenIds[pos], <<"L","o","g","i","n"," ","F","o","r","m">>, Phone, RowsWithSpinner, <<>>),
          Screen(ScreenIds[pos], <<"L","o","g","i","n"," ","F","o","r","m">>, Desktop, RowsWithSpinnerAsTable, <<>>),
          Screen(ScreenIds[pos], <<"L","o","g","i","n"," ","F","o","r","m">>, Phone, SuccessBanner, <<>>),
          Screen(ScreenIds[pos], <<"P","l","a","t","f","o","r","m">>, Phone, NoChildren, <<>>)}

LoginFormWithSubmitButton == Screen(ScreenIds[1], <<"L","o","g","i","n"," ","F","o","r","m">>, Phone, SubmitButton, <<>>)

ProfileScreen == Screen(ScreenIds[2], <<"P","r","o","f","i","l","e">>, Phone, NoChildren, <<>>)

FlowNames == {<<"A">>, <<"B">>}

FlowIds == {<<"1">>, <<"2">>}

FlowConnections == {<<>>} \cup {<<Connection(<<"1",":","9">>, id)>> : id \in FlowIds}

FlowPool ==
    {Screen(id, name, Phone, NoChildren, connections) :
        id \in FlowIds, name \in FlowNames, connections \in FlowConnections}
    \cup {ScreenWithoutConnections(id, name, Phone, NoChildren) :
            id \in FlowIds, name \in FlowNames}

(***************************************************************************)
(* The state machine.                                                       *)
(***************************************************************************)
\* nothing analysed yet
NoAnalysis ==
    /\ screens = <<>>
    /\ backendResult = Null
    /\ uiResult = Null
    /\ uiError = "none"
    /\ clock = 0
    /\ history = <<>>

\* analyzeScreens is not followed step by step
NoWalk ==
    /\ walkPc = "none"
    /\ screenIndex = 0
    /\ callStack = <<>>
    /\ accumulatedNames = <<>>
    /\ visits = <<>>

\* no component is being looked up
NoLookup == lookup = Null

\* analyze.js is not running as a batch
NoBatch ==
    /\ screensDir = Absent
    /\ resultsDir = Absent
    /\ pc = "none"
    /\ fileIndex = 0
    /\ uncaught = "none"

\* the plugin is not open
NoPlugin ==
    /\ pluginVariant = "none"
    /\ selection = <<>>
    /\ toPlugin = <<>>
    /\ toUi = <<>>
    /\ lastAnalysisResult = Null
    /\ enrichedScreensCache = <<>>
    /\ enrichedScreens = <<>>
    /\ error = Null
    /\ isAnalyzing = FALSE
    /\ frameCount = 0
    /\ fonts = {}
    /\ page = <<>>
    /\ notifications = <<>>
    /\ awaiting = <<>>
    /\ requested = 0

Init ==
    /\ patterns \in KnowledgeBases
    /\ uiVariant \in UiVariants
    /\ NoAnalysis
    /\ NoWalk
    /\ NoLookup
    /\ NoBatch
    /\ NoPlugin

NotAnalyzed == backendResult = Null /\ uiResult = Null /\ uiError = "none"

\* one more screen is exported into the batch
AddScreen ==
    /\ NotAnalyzed
    /\ Len(screens) < MaxScreens
    /\ \E s \in ScreenPool(Len(screens) + 1) : screens' = Append(screens, s)
    /\ UNCHANGED <<patterns, uiVariant, backendResult, uiResult, uiError, clock>>
    /\ UNCHANGED <<lookup, walkVars, reportVars, history, batchVars, pluginVars>>

\* main: analyzeScreens on the screens of one file
AnalyzeScreens ==
    /\ backendResult = Null
    /\ backendResult' = analyzeScreens(screens, clock)
    /\ clock' = clock + 1
    /\ UNCHANGED <<patterns, uiVariant, screens, uiResult, uiError>>
    /\ UNCHANGED <<lookup, walkVars, reportVars, history, batchVars, pluginVars>>

\* 'screens-exported': analyzeLocally on the exported screens
AnalyzeLocally ==
    /\ uiResult = Null /\ uiError = "none"
    /\ IF analyzeLocallyThrows(screens)
       THEN uiError' = "TypeError" /\ UNCHANGED <<uiResult, clock>>
       ELSE /\ uiResult' = analyzeLocally(localPatterns(uiVariant), screens, clock)
            /\ clock' = clock + 1
            /\ UNCHANGED uiError
    /\ UNCHANGED <<patterns, uiVariant, screens, backendResult>>
    /\ UNCHANGED <<lookup, walkVars, reportVars, history, batchVars, pluginVars>>

Next == AddScreen \/ AnalyzeScreens \/ AnalyzeLocally

Spec == Init /\ [][Next]_vars

(***************************************************************************)
(* The analyzers on screen files whose ids contain dashes: analyze.js      *)
(* takes the ids as the file gives them.                                   *)
(***************************************************************************)
MaxDashed == 2

DashedIds == {<<"1">>, <<"2">>, <<"l","a","t","e","r","-","1">>}

DashedPool ==
    {Screen(id, name, Phone, NoChildren, <<>>) :
        id \in DashedIds, name \in {<<"O","r","d","e","r"," ","L","i","s","t">>, <<"L","o","g","i","n"," ","F","o","r","m">>, <<"P","r","o","f","i","l","e">>}}

\* the screen lists of at most MaxDashed screens with pairwise distinct ids
DashedLists ==
    UNION {{list \in [1..n -> DashedPool] :
                \A i \in 1..n : \A j \in 1..n : list[i].id = list[j].id => i = j} :
           n \in 0..MaxDashed}

InitDashed ==
    /\ patterns \in {KbCustom, KbDashedIds}
    /\ uiVariant \in UiVariants
    /\ screens \in DashedLists
    /\ backendResult = Null
    /\ uiResult = Null
    /\ uiError = "none"
    /\ clock = 0
    /\ history = <<>>
    /\ NoWalk
    /\ NoLookup
    /\ NoBatch
    /\ NoPlugin

NextDashed == AnalyzeScreens \/ AnalyzeLocally

SpecDashed == InitDashed /\ [][NextDashed]_vars

(***************************************************************************)
(* The flow analysis on its own: batches that differ in ids and             *)
(* connections, with the knowledge base held fixed.                         *)
(***************************************************************************)
MaxFlowScreens == 2

InitFlow ==
    /\ patterns = KbOfLocal
    /\ uiVariant \in UiVariants
    /\ NoAnalysis
    /\ NoWalk
    /\ NoLookup
    /\ NoBatch
    /\ NoPlugin

AddFlowScreen ==
    /\ NotAnalyzed
    /\ Len(screens) < MaxFlowScreens
    /\ \E s \in FlowPool : screens' = Append(screens, s)
    /\ UNCHANGED <<patterns, uiVariant, backendResult, uiResult, uiError, clock>>
    /\ UNCHANGED <<lookup, walkVars, reportVars, history, batchVars, pluginVars>>

NextFlow == AddFlowScreen \/ AnalyzeScreens \/ AnalyzeLocally

SpecFlow == InitFlow /\ [][NextFlow]_vars

(***************************************************************************)
(* Repeated runs: the analyzers are called again and again, on the same or *)
(* on another screen list (the next file of a batch, the next export of    *)
(* the selection), and every call is recorded.                             *)
(***************************************************************************)
MaxRuns == 3

RerunLists == {<<>>, <<LoginFormWithSubmitButton>>, <<ProfileScreen>>}

InitRerun ==
    /\ patterns \in {KbOfLocal, KbCustom}
    /\ uiVariant \in UiVariants
    /\ NoAnalysis
    /\ NoWalk
    /\ NoLookup
    /\ NoBatch
    /\ NoPlugin

\* another screen list is handed to the analyzers
ChangeScreens ==
    /\ \E list \in RerunLists \ {screens} : screens' = list
    /\ UNCHANGED <<patterns, uiVariant, backendResult, uiResult, uiError, clock>>
    /\ UNCHANGED <<lookup, walkVars, reportVars, history, batchVars, pluginVars>>

Call(analyzer, input, result) == [analyzer |-> analyzer, input |-> input, result |-> result]

\* one more call of analyzeScreens
AnalyzeScreensAgain ==
    /\ Len(history) < MaxRuns
    /\ backendResult' = analyzeScreens(screens, clock)
    /\ history' = Append(history, Call("analyzeScreens", screens, backendResult'))
    /\ clock' = clock + 1
    /\ UNCHANGED <<patterns, uiVariant, screens, uiResult, uiError>>
    /\ UNCHANGED <<lookup, walkVars, reportVars, batchVars, pluginVars>>

\* one more call of analyzeLocally
AnalyzeLocallyAgain ==
    /\ Len(history) < MaxRuns
    /\ ~analyzeLocallyThrows(screens)
    /\ uiResult' = analyzeLocally(localPatterns(uiVariant), screens, clock)
    /\ history' = Append(history, Call("analyzeLocally", screens, uiResult'))
    /\ clock' = clock + 1
    /\ UNCHANGED <<patterns, uiVariant, screens, backendResult, uiError>>
    /\ UNCHANGED <<lookup, walkVars, reportVars, batchVars, pluginVars>>

NextRerun == ChangeScreens \/ AnalyzeScreensAgain \/ AnalyzeLocallyAgain

SpecRerun == InitRerun /\ [][NextRerun]_vars

(***************************************************************************)
(* The batch run of analyze.js: the module is loaded, then main analyses   *)
(* the files of screens/ one after the other and writes one results file   *)
(* for each.  A file's content is what JSON.parse makes of its text, or    *)
(* NotJson when JSON.parse throws; a results file holds the result that    *)
(* JSON.stringify was given.                                                *)
(***************************************************************************)
MaxFiles == 2

NotJson == [json |-> FALSE]

Json(data) == [json |-> TRUE, data |-> data]

JsonArray(items) == [type |-> "array", items |-> items]

JsonObject(fields) == [type |-> "object", fields |-> fields]

JsonNumber(n) == [type |-> "number", value |-> n]

File(name, content) == [name |-> name, content |-> content]

\* a document with a name and an id that is no screen: a plugin manifest
Manifest ==
    [name |-> <<"E","d","g","y">>, id |-> <<"e","d","g","y">>, api |-> <<"1",".","0",".","0">>,
     main |-> <<"c","o","d","e",".","j","s">>, ui |-> <<"u","i",".","h","t","m","l">>]

Documents ==
    {NotJson,
     Json(JsonArray(<<>>)),
     Json(JsonArray(<<LoginFormWithSubmitButton>>)),
     Json(JsonObject([screens |-> JsonArray(<<>>)])),
     Json(JsonObject([screens |-> JsonArray(<<LoginFormWithSubmitButton>>)])),
     Json(JsonObject(LoginFormWithSubmitButton)),
     Json(JsonObject(Manifest)),
     Json(JsonNumber(42))}

FileNames == {<<"a",".","j","s","o","n">>, <<"b",".","j","s","o","n",".","j","s","o","n">>, <<"n","o","t","e","s",".","t","x","t">>}

\* the listings of a directory of at most MaxFiles files
Listings ==
    {files \in UNION {[1..n -> [name : FileNames, content : Documents]] : n \in 0..MaxFiles} :
        \A i \in 1..Len(files) : \A j \in 1..Len(files) :
            i # j => files[i].name # files[j].name}

Directory(files) == [exists |-> TRUE, files |-> files]

\* fs.readdirSync(screensDir).filter(f => f.endsWith('.json'))
screenFiles ==
    LET listed == [f \in 1..Len(screensDir.files) |-> screensDir.files[f].name]
    IN  SelectSeq(listed, LAMBDA f : endsWith(f, <<".","j","s","o","n">>))

\* fs.readFileSync(path.join(screensDir, file))
readFileSync(dir, file) ==
    SelectSeq(dir.files, LAMBDA f : f.name = file)[1].content

\* fs.writeFileSync: the file is created, or its content replaced
writeFileSync(dir, file, content) ==
    IF \E f \in 1..Len(dir.files) : dir.files[f].name = file
    THEN [dir EXCEPT !.files =
            [f \in 1..Len(dir.files) |->
                IF dir.files[f].name = file THEN File(file, content) ELSE dir.files[f]]]
    ELSE [dir EXCEPT !.files = Append(dir.files, File(file, content))]

\* a slip: an empty list counts as no list, as it would under a length test
screensOrDataWhenNonEmpty(data) ==
    IF data.type = "object" /\ "screens" \in DOMAIN data.fields
            /\ data.fields.screens.items # <<>>
    THEN data.fields.screens
    ELSE data

\* data.screens || data
screensOrData(data) ==
    IF data.type = "object" /\ "screens" \in DOMAIN data.fields
    THEN data.fields.screens
    ELSE data

\* Array.isArray(screens) ? screens : [screens]
asArray(value) ==
    IF value.type = "array" THEN value.items
    ELSE IF value.type = "object" THEN <<value.fields>>
    ELSE <<value>>

\* node.name.toLowerCase() on a value without a name is a TypeError
analyzeScreensThrows(list) == \E s \in 1..Len(list) : "name" \notin DOMAIN list[s]

\* file.replace('.json', '-results.json')
resultPath(file) == replace(file, <<".","j","s","o","n">>, <<"-","r","e","s","u","l","t","s",".","j","s","o","n">>)

InitBatch ==
    /\ patterns = KbCustom
    /\ uiVariant = "v2"
    /\ NoAnalysis
    /\ NoWalk
    /\ NoLookup
    /\ NoPlugin
    /\ screensDir \in {Absent} \cup {Directory(files) : files \in Listings}
    /\ resultsDir \in {Absent, Directory(<<>>)}
    /\ pc = "load"
    /\ fileIndex = 0
    /\ uncaught = "none"

\* the module is loaded: the results directory is made when absent
LoadModule ==
    /\ pc = "load"
    /\ resultsDir' = IF resultsDir.exists THEN resultsDir ELSE Directory(<<>>)
    /\ pc' = "main"
    /\ UNCHANGED <<patterns, uiVariant, screens, backendResult, uiResult, uiError, clock>>
    /\ UNCHANGED <<lookup, walkVars, reportVars, history, pluginVars, screensDir, fileIndex, uncaught>>

\* main, up to its loop
MainStart ==
    /\ pc = "main"
    /\ IF ~screensDir.exists
       THEN /\ screensDir' = Directory(<<File(<<".","g","i","t","k","e","e","p">>, NotJson)>>)
            /\ pc' = "done"
            /\ UNCHANGED fileIndex
       ELSE IF Len(screenFiles) = 0
       THEN pc' = "done" /\ UNCHANGED <<screensDir, fileIndex>>
       ELSE pc' = "for" /\ fileIndex' = 1 /\ UNCHANGED screensDir
    /\ UNCHANGED <<patterns, uiVariant, screens, backendResult, uiResult, uiError, clock>>
    /\ UNCHANGED <<lookup, walkVars, reportVars, history, pluginVars, resultsDir, uncaught>>

\* one turn of main's loop: a file is parsed, analysed, and its results written
AnalyzeFile ==
    /\ pc = "for" /\ fileIndex <= Len(screenFiles)
    /\ LET file == screenFiles[fileIndex]
           text == readFileSync(screensDir, file)
       IN  IF ~text.json
           THEN /\ uncaught' = "SyntaxError" /\ pc' = "exit"
                /\ UNCHANGED <<screens, backendResult, clock, resultsDir, fileIndex>>
           ELSE LET list == asArray(screensOrData(text.data))
                IN  IF analyzeScreensThrows(list)
                    THEN /\ uncaught' = "TypeError" /\ pc' = "exit"
                         /\ UNCHANGED <<screens, backendResult, clock, resultsDir, fileIndex>>
                    ELSE /\ screens' = list
                         /\ backendResult' = analyzeScreens(list, clock)
                         /\ clock' = clock + 1
                         /\ resultsDir' =
                                writeFileSync(resultsDir, resultPath(file), backendResult')
                         /\ fileIndex' = fileIndex + 1
                         /\ UNCHANGED <<uncaught, pc>>
    /\ UNCHANGED <<patterns, uiVariant, uiResult, uiError>>
    /\ UNCHANGED <<lookup, walkVars, reportVars, history, pluginVars, screensDir>>

\* the loop is over
MainEnd ==
    /\ pc = "for" /\ fileIndex > Len(screenFiles)
    /\ pc' = "done"
    /\ UNCHANGED <<patterns, uiVariant, screens, backendResult, uiResult, uiError, clock>>
    /\ UNCHANGED <<lookup, walkVars, reportVars, history, pluginVars, screensDir, resultsDir, fileIndex, uncaught>>

NextBatch == LoadModule \/ MainStart \/ AnalyzeFile \/ MainEnd

SpecBatch == InitBatch /\ [][NextBatch]_vars

(***************************************************************************)
(* The plugin: its component tables and the lookup by suggested name.      *)
(* Four builds of the plugin exist: with component keys, with library      *)
(* links, with the component library, and the simplified one.  The fields  *)
(* of an entry that only the drawing code reads are left out.              *)
(***************************************************************************)
SHADCN_FILE_BASE ==
    <<"h","t","t","p","s",":","/","/","w","w","w",".","f","i","g","m","a",".","c","o","m","/","d","e","s","i","g","n","/","l","m","U","g","I","G","w","d","G","2","Z","a","V","f","v","Z","z","F","u","U","2","H","/","-","s","h","a","d","c","n","-","u","i","-","-","-","D","e","s","i","g","n","-","S","y","s","t","e","m","-","-","C","o","m","m","u","n","i","t","y","-","?","n","o","d","e","-","i","d","=">>

\* code.ts, first build: no key is configured
componentMappings ==
    <<
    [name |-> <<"A","l","e","r","t">>, key |-> <<>>,
     aliases |-> <<<<"a","l","e","r","t">>, <<"e","r","r","o","r">>, <<"w","a","r","n","i","n","g">>, <<"n","o","t","i","f","i","c","a","t","i","o","n">>>>],
    [name |-> <<"A","l","e","r","t","D","i","a","l","o","g">>, key |-> <<>>,
     aliases |-> <<<<"a","l","e","r","t","-","d","i","a","l","o","g">>, <<"c","o","n","f","i","r","m">>, <<"d","i","a","l","o","g">>, <<"m","o","d","a","l">>>>],
    [name |-> <<"T","o","a","s","t">>, key |-> <<>>,
     aliases |-> <<<<"t","o","a","s","t">>, <<"s","n","a","c","k","b","a","r">>, <<"n","o","t","i","f","i","c","a","t","i","o","n">>>>],
    [name |-> <<"S","k","e","l","e","t","o","n">>, key |-> <<>>,
     aliases |-> <<<<"s","k","e","l","e","t","o","n">>, <<"l","o","a","d","e","r">>, <<"l","o","a","d","i","n","g">>, <<"p","l","a","c","e","h","o","l","d","e","r">>>>],
    [name |-> <<"B","u","t","t","o","n">>, key |-> <<>>,
     aliases |-> <<<<"b","u","t","t","o","n">>, <<"b","t","n">>, <<"c","t","a">>>>],
    [name |-> <<"C","a","r","d">>, key |-> <<>>,
     aliases |-> <<<<"c","a","r","d">>, <<"c","o","n","t","a","i","n","e","r">>, <<"b","o","x">>>>],
    [name |-> <<"I","n","p","u","t">>, key |-> <<>>,
     aliases |-> <<<<"i","n","p","u","t">>, <<"t","e","x","t","-","f","i","e","l","d">>, <<"f","o","r","m","-","f","i","e","l","d">>>>],
    [name |-> <<"P","r","o","g","r","e","s","s">>, key |-> <<>>,
     aliases |-> <<<<"p","r","o","g","r","e","s","s">>, <<"l","o","a","d","i","n","g","-","b","a","r">>, <<"s","p","i","n","n","e","r">>>>],
    [name |-> <<"B","a","d","g","e">>, key |-> <<>>,
     aliases |-> <<<<"b","a","d","g","e">>, <<"t","a","g">>, <<"l","a","b","e","l">>, <<"s","t","a","t","u","s">>>>]
    >>

\* code.ts, second build
componentLinks ==
    <<
    [name |-> <<"A","l","e","r","t">>, nodeId |-> <<"4","-","6","5","9","8">>,
     aliases |-> <<<<"a","l","e","r","t">>, <<"e","r","r","o","r","-","m","e","s","s","a","g","e">>, <<"w","a","r","n","i","n","g">>, <<"n","o","t","i","f","i","c","a","t","i","o","n">>>>],
    [name |-> <<"A","l","e","r","t","D","i","a","l","o","g">>, nodeId |-> <<"4","-","6","5","9","8">>,
     aliases |-> <<<<"a","l","e","r","t","-","d","i","a","l","o","g">>, <<"c","o","n","f","i","r","m">>, <<"c","o","n","f","i","r","m","a","t","i","o","n">>>>],
    [name |-> <<"B","u","t","t","o","n">>, nodeId |-> <<"1","3","-","1","0","7","0">>,
     aliases |-> <<<<"b","u","t","t","o","n">>, <<"b","t","n">>, <<"c","t","a">>, <<"s","u","b","m","i","t">>>>],
    [name |-> <<"I","n","p","u","t">>, nodeId |-> <<"1","3","-","1","2","5","6">>,
     aliases |-> <<<<"i","n","p","u","t">>, <<"t","e","x","t","-","f","i","e","l","d">>, <<"f","o","r","m","-","f","i","e","l","d">>, <<"t","e","x","t","f","i","e","l","d">>>>],
    [name |-> <<"D","i","a","l","o","g">>, nodeId |-> <<"1","3","-","1","0","2","6">>,
     aliases |-> <<<<"d","i","a","l","o","g">>, <<"m","o","d","a","l">>, <<"p","o","p","u","p">>, <<"o","v","e","r","l","a","y">>>>],
    [name |-> <<"P","r","o","g","r","e","s","s">>, nodeId |-> <<"1","3","-","1","3","0","6">>,
     aliases |-> <<<<"p","r","o","g","r","e","s","s">>, <<"l","o","a","d","i","n","g","-","b","a","r">>, <<"p","r","o","g","r","e","s","s","-","b","a","r">>>>],
    [name |-> <<"T","a","b","s">>, nodeId |-> <<"1","3","-","1","3","5","6">>,
     aliases |-> <<<<"t","a","b","s">>, <<"t","a","b","-","b","a","r">>, <<"n","a","v","i","g","a","t","i","o","n">>>>],
    [name |-> <<"S","k","e","l","e","t","o","n">>, nodeId |-> <<"1","3","-","1","0","7","0">>,
     aliases |-> <<<<"s","k","e","l","e","t","o","n">>, <<"l","o","a","d","e","r">>, <<"l","o","a","d","i","n","g">>, <<"p","l","a","c","e","h","o","l","d","e","r">>>>],
    [name |-> <<"T","o","a","s","t">>, nodeId |-> <<"4","-","6","5","9","8">>,
     aliases |-> <<<<"t","o","a","s","t">>, <<"s","n","a","c","k","b","a","r">>, <<"m","e","s","s","a","g","e">>>>],
    [name |-> <<"C","a","r","d">>, nodeId |-> <<"1","3","-","1","0","2","6">>,
     aliases |-> <<<<"c","a","r","d">>, <<"c","o","n","t","a","i","n","e","r">>, <<"b","o","x">>>>],
    [name |-> <<"B","a","d","g","e">>, nodeId |-> <<"1","3","-","1","0","7","0">>,
     aliases |-> <<<<"b","a","d","g","e">>, <<"t","a","g">>, <<"l","a","b","e","l">>, <<"s","t","a","t","u","s">>>>]
    >>

\* the build with suggested components: the links without Tabs
componentLibrary == SelectSeq(componentLinks, LAMBDA c : c.name # <<"T","a","b","s">>)

\* the simplified build
componentLibrarySimplified ==
    <<
    [name |-> <<"A","l","e","r","t">>, nodeId |-> <<"4","-","6","5","9","8">>,
     aliases |-> <<<<"a","l","e","r","t">>, <<"e","r","r","o","r">>, <<"w","a","r","n","i","n","g">>>>],
    [name |-> <<"B","u","t","t","o","n">>, nodeId |-> <<"1","3","-","1","0","7","0">>,
     aliases |-> <<<<"b","u","t","t","o","n">>, <<"b","t","n">>, <<"c","t","a">>>>],
    [name |-> <<"I","n","p","u","t">>, nodeId |-> <<"1","3","-","1","2","5","6">>,
     aliases |-> <<<<"i","n","p","u","t">>, <<"t","e","x","t","-","f","i","e","l","d">>, <<"f","o","r","m">>>>],
    [name |-> <<"D","i","a","l","o","g">>, nodeId |-> <<"1","3","-","1","0","2","6">>,
     aliases |-> <<<<"d","i","a","l","o","g">>, <<"m","o","d","a","l">>, <<"p","o","p","u","p">>>>],
    [name |-> <<"P","r","o","g","r","e","s","s">>, nodeId |-> <<"1","3","-","1","3","0","6">>,
     aliases |-> <<<<"p","r","o","g","r","e","s","s">>, <<"l","o","a","d","i","n","g">>>>],
    [name |-> <<"S","k","e","l","e","t","o","n">>, nodeId |-> <<"1","3","-","1","0","7","0">>,
     aliases |-> <<<<"s","k","e","l","e","t","o","n">>, <<"l","o","a","d","e","r">>>>],
    [name |-> <<"T","o","a","s","t">>, nodeId |-> <<"4","-","6","5","9","8">>,
     aliases |-> <<<<"t","o","a","s","t">>, <<"s","n","a","c","k","b","a","r">>>>],
    [name |-> <<"C","a","r","d">>, nodeId |-> <<"1","3","-","1","0","2","6">>,
     aliases |-> <<<<"c","a","r","d">>, <<"c","o","n","t","a","i","n","e","r">>>>]
    >>

PluginVariants == {"mappings", "links", "library", "simplified"}

componentsOf(variant) ==
    CASE variant = "mappings" -> componentMappings
      [] variant = "links" -> componentLinks
      [] variant = "library" -> componentLibrary
      [] variant = "simplified" -> componentLibrarySimplified

\* the test of Array.prototype.find in the four lookups
matchesComponent(c, normalized) ==
    \/ toLowerCase(c.name) = normalized
    \/ \E a \in 1..Len(c.aliases) : includes(normalized, c.aliases[a])

\* findComponentMapping, findComponentLink, findComponentInfo: the first
\* entry that matches, as a list of at most one entry
findComponentInfo(table, suggestedName) ==
    LET normalized == toLowerCase(suggestedName)
        found == SelectSeq(table, LAMBDA c : matchesComponent(c, normalized))
    IN  IF found = <<>> THEN <<>> ELSE <<found[1]>>

\* a slip: a component without an entry gets no match at all
libraryMatchesOfFound(variant, suggestedComponents) ==
    flat([c \in 1..Len(suggestedComponents) |->
            IF findComponentInfo(componentsOf(variant), suggestedComponents[c]) = <<>>
            THEN <<>>
            ELSE <<[name |-> suggestedComponents[c]]>>])

\* issue.suggestedComponents.map(comp => ...)
libraryMatchesOf(variant, suggestedComponents) ==
    [c \in 1..Len(suggestedComponents) |->
        LET comp == suggestedComponents[c]
            info == findComponentInfo(componentsOf(variant), comp)
        IN  IF variant = "mappings"
            THEN IF info # <<>> /\ info[1].key # <<>>
                 THEN [name |-> comp, libraryKey |-> info[1].key, libraryName |-> info[1].name]
                 ELSE [name |-> comp]
            ELSE IF info # <<>>
                 THEN [name |-> comp, libraryUrl |-> SHADCN_FILE_BASE \o info[1].nodeId,
                       libraryName |-> info[1].name]
                 ELSE [name |-> comp]]

\* { ...issue, libraryMatches: matches }
enrichIssue(variant, issue) ==
    [f \in DOMAIN issue \cup {"libraryMatches"} |->
        IF f = "libraryMatches"
        THEN libraryMatchesOf(variant, issue.suggestedComponents)
        ELSE issue[f]]

\* { ...screen, issues: screen.issues.map(...) }
enrichScreen(variant, screen) ==
    [screen EXCEPT !.issues = [i \in 1..Len(screen.issues) |-> enrichIssue(variant, screen.issues[i])]]

\* a slip: only the screens that have issues are kept
enrichScreensWithIssues(variant, result) ==
    LET kept == SelectSeq(result.screens, LAMBDA screen : screen.issues # <<>>)
    IN  [s \in 1..Len(kept) |-> enrichScreen(variant, kept[s])]

enrichScreens(variant, result) ==
    [s \in 1..Len(result.screens) |-> enrichScreen(variant, result.screens[s])]

(***************************************************************************)
(* One call of the lookup: findComponentMapping, findComponentLink or      *)
(* findComponentInfo, by the build, with the name of an entry of the       *)
(* build's table, as written, in lower case or in upper case.              *)
(***************************************************************************)
Cases(name) == {name, toLowerCase(name), toUpperCase(name)}

EntryNames(table) == UNION {Cases(table[e].name) : e \in 1..Len(table)}

InitLookup ==
    /\ patterns = KbOfLocal
    /\ uiVariant = "v2"
    /\ NoAnalysis
    /\ NoWalk
    /\ NoBatch
    /\ pluginVariant \in PluginVariants
    /\ selection = <<>>
    /\ toPlugin = <<>>
    /\ toUi = <<>>
    /\ lastAnalysisResult = Null
    /\ enrichedScreensCache = <<>>
    /\ enrichedScreens = <<>>
    /\ error = Null
    /\ isAnalyzing = FALSE
    /\ frameCount = 0
    /\ fonts = {}
    /\ page = <<>>
    /\ notifications = <<>>
    /\ awaiting = <<>>
    /\ requested = 0
    /\ \E name \in EntryNames(componentsOf(pluginVariant)) :
            lookup = [componentName |-> name, called |-> FALSE, info |-> <<>>]

\* the lookup is called with the name
CallFindComponentInfo ==
    /\ lookup # Null /\ ~lookup.called
    /\ lookup' = [lookup EXCEPT !.called = TRUE,
                     !.info = findComponentInfo(componentsOf(pluginVariant), lookup.componentName)]
    /\ UNCHANGED <<patterns, uiVariant, screens, backendResult, uiResult, uiError, clock>>
    /\ UNCHANGED <<history, batchVars, pluginVars, reportVars, walkVars>>

NextLookup == CallFindComponentInfo

SpecLookup == InitLookup /\ [][NextLookup]_vars

(***************************************************************************)
(* The plugin and the UI exchange messages: figma.ui.onmessage handles     *)
(* what the UI posted, window.onmessage what the plugin posted, each in    *)
(* the order of posting.  The frame counters shown in the UI's header and  *)
(* the library status line are not part of the model.                      *)
(***************************************************************************)
MaxClicks == 2

MaxPending == 1

SearchScreen == Screen(ScreenIds[2], <<"S","e","a","r","c","h">>, Desktop, NoChildren, <<>>)

\* what the user may have selected on the page: the frames, as exported
Selections == {<<>>, <<LoginFormWithSubmitButton>>, <<LoginFormWithSubmitButton, SearchScreen>>}

Message(type, payload) == [type |-> type, payload |-> payload]

NoPayload == [none |-> TRUE]

selectAtLeastOneFrame(variant) ==
    IF variant = "simplified"
    THEN <<"S","e","l","e","c","t"," ","a","t"," ","l","e","a","s","t"," ","o","n","e"," ","f","r","a","m","e">>
    ELSE <<"P","l","e","a","s","e"," ","s","e","l","e","c","t"," ","a","t"," ","l","e","a","s","t"," ","o","n","e"," ","f","r","a","m","e"," ","t","o"," ","a","n","a","l","y","z","e">>

CountOf(queue, type) == Cardinality({m \in 1..Len(queue) : queue[m].type = type})

\* figma.notify: the text, without the emoji it starts with, and the number it holds
Notice(text) == [text |-> text]

NoticeOf(text, count) == [text |-> text, count |-> count]

analysisComplete(variant, totalIssues) ==
    IF variant = "simplified"
    THEN NoticeOf(<<"i","s","s","u","e","s"," ","f","o","u","n","d">>, totalIssues)
    ELSE NoticeOf(<<"A","n","a","l","y","s","i","s"," ","c","o","m","p","l","e","t","e",":"," ","i","s","s","u","e","s"," ","f","o","u","n","d">>, totalIssues)

\* sendSelectionUpdate's message
selectionChanged(frames) ==
    Message("selection-changed",
            [frameCount |-> Len(frames),
             frameNames |-> [f \in 1..Len(frames) |-> frames[f].name]])

\* requests for an analysis that the UI has not seen answered yet
InFlight ==
    CountOf(toPlugin, "analyze") + CountOf(toUi, "screens-exported") + CountOf(toUi, "error")

InitPlugin ==
    /\ patterns = KbOfLocal
    /\ uiVariant \in UiVariants
    /\ NoAnalysis
    /\ NoWalk
    /\ NoLookup
    /\ NoBatch
    /\ pluginVariant \in PluginVariants
    /\ selection \in Selections
    /\ toPlugin = <<>>
    /\ toUi = <<selectionChanged(selection)>>
    /\ lastAnalysisResult = Null
    /\ enrichedScreensCache = <<>>
    /\ enrichedScreens = <<>>
    /\ error = Null
    /\ isAnalyzing = FALSE
    /\ frameCount = 0
    /\ fonts = {}
    /\ page = <<>>
    /\ notifications = <<>>
    /\ awaiting = <<>>
    /\ requested = 0

\* the user changes the selection: figma.on('selectionchange', sendSelectionUpdate)
sendSelectionUpdate ==
    /\ Len(toUi) < MaxPending
    /\ \E frames \in Selections \ {selection} :
        /\ selection' = frames
        /\ toUi' = Append(toUi, selectionChanged(frames))
    /\ UNCHANGED <<patterns, uiVariant, screens, backendResult, uiResult, uiError, clock>>
    /\ UNCHANGED <<lookup, walkVars, reportVars, history, batchVars>>
    /\ UNCHANGED <<pluginVariant, toPlugin, lastAnalysisResult, enrichedScreensCache,
                   enrichedScreens, error, isAnalyzing>>

\* the user clicks Analyze, which is disabled while frameCount === 0 || isAnalyzing
handleAnalyze ==
    /\ frameCount # 0 /\ ~isAnalyzing
    /\ clock + InFlight < MaxClicks
    /\ isAnalyzing' = TRUE
    /\ error' = Null
    /\ uiResult' = Null
    /\ enrichedScreens' = IF uiVariant = "v2" THEN <<>> ELSE enrichedScreens
    /\ toPlugin' = Append(toPlugin, Message("analyze", NoPayload))
    /\ UNCHANGED <<patterns, uiVariant, screens, backendResult, uiError, clock>>
    /\ UNCHANGED <<lookup, walkVars, reportVars, history, batchVars>>
    /\ UNCHANGED <<pluginVariant, selection, toUi, lastAnalysisResult, enrichedScreensCache>>

\* figma.ui.onmessage, case 'analyze'
OnAnalyze ==
    /\ toPlugin # <<>> /\ Head(toPlugin).type = "analyze"
    /\ toPlugin' = Tail(toPlugin)
    /\ LET exported == selection
       IN  IF Len(exported) = 0
           THEN toUi' = Append(toUi, Message("error",
                            [message |-> selectAtLeastOneFrame(pluginVariant)]))
           ELSE toUi' = Append(toUi, Message("screens-exported",
                            [screens |-> exported, timestamp |-> clock]))
    /\ UNCHANGED <<patterns, uiVariant, screens, backendResult, uiResult, uiError, clock>>
    /\ UNCHANGED <<lookup, walkVars, reportVars, history, batchVars>>
    /\ UNCHANGED <<pluginVariant, selection, lastAnalysisResult, enrichedScreensCache,
                   enrichedScreens, error, isAnalyzing>>

\* figma.ui.onmessage, case 'analysis-complete'
OnAnalysisComplete ==
    /\ toPlugin # <<>> /\ Head(toPlugin).type = "analysis-complete"
    /\ toPlugin' = Tail(toPlugin)
    /\ LET result == Head(toPlugin).payload.result
           enriched == enrichScreens(pluginVariant, result)
       IN  /\ lastAnalysisResult' = result
           /\ enrichedScreensCache' =
                 IF pluginVariant = "mappings" THEN enrichedScreensCache ELSE enriched
           /\ toUi' = Append(toUi, Message("results-enriched", [screens |-> enriched]))
           /\ notifications' = Append(notifications,
                                      analysisComplete(pluginVariant, result.totalIssues))
    /\ UNCHANGED <<patterns, uiVariant, screens, backendResult, uiResult, uiError, clock>>
    /\ UNCHANGED <<lookup, walkVars, history, batchVars>>
    /\ UNCHANGED <<frameCount, fonts, page, awaiting, requested>>
    /\ UNCHANGED <<pluginVariant, selection, enrichedScreens, error, isAnalyzing>>

\* window.onmessage, case 'selection-changed'
UiOnSelectionChanged ==
    /\ toUi # <<>> /\ Head(toUi).type = "selection-changed"
    /\ toUi' = Tail(toUi)
    /\ frameCount' = Head(toUi).payload.frameCount
    /\ error' = Null
    /\ UNCHANGED <<patterns, uiVariant, screens, backendResult, uiResult, uiError, clock>>
    /\ UNCHANGED <<lookup, walkVars, history, batchVars>>
    /\ UNCHANGED <<fonts, page, notifications, awaiting, requested>>
    /\ UNCHANGED <<pluginVariant, selection, toPlugin, lastAnalysisResult,
                   enrichedScreensCache, enrichedScreens, isAnalyzing>>

\* window.onmessage, case 'screens-exported'
UiOnScreensExported ==
    /\ toUi # <<>> /\ Head(toUi).type = "screens-exported"
    /\ toUi' = Tail(toUi)
    /\ screens' = Head(toUi).payload.screens
    /\ IF analyzeLocallyThrows(screens')
       THEN /\ uiError' = "TypeError"
            /\ UNCHANGED <<uiResult, clock, isAnalyzing, toPlugin>>
       ELSE /\ uiResult' = analyzeLocally(localPatterns(uiVariant), screens', clock)
            /\ clock' = clock + 1
            /\ isAnalyzing' = FALSE
            /\ toPlugin' = Append(toPlugin,
                                Message("analysis-complete", [result |-> uiResult']))
            /\ UNCHANGED uiError
    /\ UNCHANGED <<patterns, uiVariant, backendResult>>
    /\ UNCHANGED <<lookup, walkVars, reportVars, history, batchVars>>
    /\ UNCHANGED <<pluginVariant, selection, lastAnalysisResult, enrichedScreensCache,
                   enrichedScreens, error>>

\* window.onmessage, case 'results-enriched' (the first build of the UI has none)
UiOnResultsEnriched ==
    /\ toUi # <<>> /\ Head(toUi).type = "results-enriched"
    /\ toUi' = Tail(toUi)
    /\ enrichedScreens' =
          IF uiVariant = "v2" THEN Head(toUi).payload.screens ELSE enrichedScreens
    /\ UNCHANGED <<patterns, uiVariant, screens, backendResult, uiResult, uiError, clock>>
    /\ UNCHANGED <<lookup, walkVars, reportVars, history, batchVars>>
    /\ UNCHANGED <<pluginVariant, selection, toPlugin, lastAnalysisResult,
                   enrichedScreensCache, error, isAnalyzing>>

\* a slip: the case 'error' shows the message and leaves the button disabled
UiOnErrorStillAnalyzing ==
    /\ toUi # <<>> /\ Head(toUi).type = "error"
    /\ toUi' = Tail(toUi)
    /\ error' = [message |-> Head(toUi).payload.message]
    /\ UNCHANGED isAnalyzing
    /\ UNCHANGED <<patterns, uiVariant, screens, backendResult, uiResult, uiError, clock>>
    /\ UNCHANGED <<lookup, walkVars, reportVars, history, batchVars>>
    /\ UNCHANGED <<pluginVariant, selection, toPlugin, lastAnalysisResult,
                   enrichedScreensCache, enrichedScreens>>

\* window.onmessage, case 'error'
UiOnError ==
    /\ toUi # <<>> /\ Head(toUi).type = "error"
    /\ toUi' = Tail(toUi)
    /\ error' = [message |-> Head(toUi).payload.message]
    /\ isAnalyzing' = FALSE
    /\ UNCHANGED <<patterns, uiVariant, screens, backendResult, uiResult, uiError, clock>>
    /\ UNCHANGED <<lookup, walkVars, reportVars, history, batchVars>>
    /\ UNCHANGED <<pluginVariant, selection, toPlugin, lastAnalysisResult,
                   enrichedScreensCache, enrichedScreens>>

NextPlugin ==
    \/ sendSelectionUpdate
    \/ handleAnalyze
    \/ OnAnalyze
    \/ OnAnalysisComplete
    \/ UiOnSelectionChanged
    \/ UiOnScreensExported
    \/ UiOnResultsEnriched
    \/ UiOnError

SpecPlugin == InitPlugin /\ [][NextPlugin]_vars

\* message delivery: window.onmessage is called for the message at the head of
\* the UI's queue, figma.ui.onmessage for the one at the head of the plugin's
UiHandlesMessage == toUi # <<>> /\ toUi' = Tail(toUi)

PluginHandlesMessage == toPlugin # <<>> /\ toPlugin' = Tail(toPlugin)

SpecPluginDelivering ==
    SpecPlugin /\ WF_toUi(UiHandlesMessage) /\ WF_toPlugin(PluginHandlesMessage)

(***************************************************************************)
(* The plugin draws on the canvas.  The handlers of figma.ui.onmessage are *)
(* async functions: one that waits for figma.loadFontAsync is suspended    *)
(* there and the plugin handles other messages in the meantime; an await   *)
(* of a function that awaits nothing itself (createComponentCard) lets no  *)
(* message in.  The consecutive font loads of one function are one wait.   *)
(* A node of the page is described by what it was drawn from.  The UI at   *)
(* hand posts 'insert-placeholders' from the results view only and never   *)
(* posts the other requests, but the plugin handles them whenever they are *)
(* posted, so they are posted at any time here.                            *)
(***************************************************************************)
MaxRequests == 1

\* the font families the machine may have
FontSets == {{"Inter", "Roboto", "Arial"}, {"Arial"}, {}}

ReportRequests == {"insert-placeholders", "generate-report"}

RequestTypes == ReportRequests \cup {"insert-component", "find-component", "load-library"}

\* what the UI sends along with a request
payloadOf(type) ==
    CASE type = "insert-component" ->
            [componentKey |-> <<>>, screenId |-> ScreenIds[1], index |-> 0]
      [] type = "find-component" -> [componentName |-> <<"A","l","e","r","t","D","i","a","l","o","g">>]
      [] OTHER -> NoPayload

\* the cases of the switch in each build
casesOf(variant) ==
    CASE variant = "mappings" -> RequestTypes
      [] variant \in {"links", "library"} -> RequestTypes \ {"insert-component"}
      [] variant = "simplified" -> ReportRequests \cup {"load-library"}

pleaseRunAnalysisFirst(variant) ==
    IF variant = "simplified"
    THEN <<"P","l","e","a","s","e"," ","r","u","n"," ","A","n","a","l","y","z","e"," ","F","l","o","w"," ","f","i","r","s","t","!">>
    ELSE <<"P","l","e","a","s","e"," ","r","u","n"," ","a","n","a","l","y","s","i","s"," ","f","i","r","s","t">>

\* what the last notification of a report handler says
reportDone(variant, type) ==
    CASE variant = "simplified" -> <<"R","e","p","o","r","t"," ","c","r","e","a","t","e","d","!">>
      [] variant = "links" /\ type = "insert-placeholders" -> <<"C","r","e","a","t","e","d"," ","r","e","p","o","r","t"," ","f","r","a","m","e">>
      [] variant = "library" /\ type = "insert-placeholders" ->
            <<"C","r","e","a","t","e","d"," ","r","e","p","o","r","t"," ","+"," ","s","u","g","g","e","s","t","e","d"," ","c","o","m","p","o","n","e","n","t","s","!">>
      [] OTHER -> <<"R","e","p","o","r","t"," ","g","e","n","e","r","a","t","e","d","!">>

Digits == <<"0", "1", "2", "3", "4", "5", "6", "7", "8", "9">>

\* the id Figma gives to the next node appended to the page
nextNodeId == <<"2", "0", ":", Digits[Len(page) + 1]>>

\* the first occurrence of each element of a list
firstOccurrences(list) ==
    LET kept == SelectSeq([i \in 1..Len(list) |-> i] \o <<>>,
                          LAMBDA i : \A j \in 1..(i - 1) : list[j] # list[i])
    IN  [k \in 1..Len(kept) |-> list[kept[k]]] \o <<>>

\* createSuggestedComponentsFrame: the names of componentsNeeded, in order of insertion
componentsNeeded(variant, cache) ==
    firstOccurrences(
        flat([s \in 1..Len(cache) |->
            flat([i \in 1..Len(cache[s].issues) |->
                flat([c \in 1..Len(cache[s].issues[i].suggestedComponents) |->
                    LET info == findComponentInfo(componentsOf(variant),
                                    cache[s].issues[i].suggestedComponents[c])
                    IN  IF info = <<>> THEN <<>> ELSE <<info[1].name>>])])]))

\* the frame named Edge Case Report, drawn from result and screens
reportFrame(id, result, drawn) ==
    [kind |-> "report", id |-> id, name |-> <<"E","d","g","e"," ","C","a","s","e"," ","R","e","p","o","r","t">>,
     result |-> result, screens |-> drawn]

\* the frame named Suggested Components, drawn from the cache
componentsFrame(id, cache, needed) ==
    [kind |-> "components", id |-> id, name |-> <<"S","u","g","g","e","s","t","e","d"," ","C","o","m","p","o","n","e","n","t","s">>,
     screens |-> cache, cards |-> needed]

\* the card createAnnotationCard draws for a screen
annotationCard(id, screen) ==
    [kind |-> "card", id |-> id, name |-> <<"E","d","g","e"," ","C","a","s","e"," ","I","s","s","u","e","s"," ","-"," ">> \o screen.screenName,
     screenId |-> screen.screenId, issues |-> screen.issues]

\* exportSelectedFrames on a frame the plugin drew: the named frames below
\* it, without their text nodes
exported(node) ==
    LET below(k) == node.id \o <<";", Digits[k + 1]>>
        row(k, name) == Leaf(below(k), name, <<"F","R","A","M","E">>, TRUE)
        section(k, screen) ==
            IF screen.issues = <<>>
            THEN row(k, <<"S","c","r","e","e","n",":"," ">> \o screen.screenName)
            ELSE Parent(below(k), <<"S","c","r","e","e","n",":"," ">> \o screen.screenName, <<"F","R","A","M","E">>, TRUE,
                        [i \in 1..Len(screen.issues) |->
                            Leaf(below(k) \o <<";", Digits[i + 1]>>, screen.issues[i].name,
                                 <<"F","R","A","M","E">>, TRUE)] \o <<>>)
        children ==
            CASE node.kind = "report" ->
                    <<row(0, <<"H","e","a","d","e","r">>), row(1, <<"S","t","a","t","s">>)>>
                    \o ([k \in 1..Len(node.screens) |-> section(k + 1, node.screens[k])] \o <<>>)
                    \o <<row(Len(node.screens) + 2, <<"F","o","o","t","e","r">>)>>
              [] node.kind = "components" ->
                    <<row(0, <<"H","e","a","d","e","r">>),
                      Parent(below(1), <<"C","o","m","p","o","n","e","n","t","s"," ","G","r","i","d">>, <<"F","R","A","M","E">>, TRUE,
                             [c \in 1..Len(node.cards) |->
                                Leaf(below(1) \o <<";", Digits[c + 1]>>, node.cards[c],
                                     <<"F","R","A","M","E">>, TRUE)] \o <<>>),
                      row(2, <<"F","o","o","t","e","r">>)>>
              [] OTHER -> <<>>
    IN  Screen(node.id, node.name, Desktop, children, <<>>)

\* a handler of figma.ui.onmessage suspended at an await
Suspended(type, at, report, todo, created) ==
    [type |-> type, at |-> at, report |-> report, todo |-> todo, created |-> created]

\* figma.loadFontAsync resolves for a family the machine has
loads(family) == family \in fonts

\* the font loads of a drawing function: Roboto or else Arial in the simplified
\* build, Inter in the others
fontsLoaded ==
    IF pluginVariant = "simplified"
    THEN loads("Roboto") \/ loads("Arial")
    ELSE loads("Inter")

\* a slip: the test that guards the drawing is left out
runAnalysisFirstForgotten(variant) == FALSE

\* !lastAnalysisResult in the first build,
\* !lastAnalysisResult || enrichedScreensCache.length === 0 in the others
runAnalysisFirst(variant) ==
    IF variant = "mappings"
    THEN lastAnalysisResult = Null
    ELSE lastAnalysisResult = Null \/ Len(enrichedScreensCache) = 0

InitReport ==
    /\ patterns = KbOfLocal
    /\ uiVariant = "v2"
    /\ NoAnalysis
    /\ NoWalk
    /\ NoLookup
    /\ NoBatch
    /\ pluginVariant \in PluginVariants
    /\ selection \in {<<>>, <<LoginFormWithSubmitButton>>}
    /\ toPlugin = <<>>
    /\ toUi = <<selectionChanged(selection)>>
    /\ lastAnalysisResult = Null
    /\ enrichedScreensCache = <<>>
    /\ enrichedScreens = <<>>
    /\ error = Null
    /\ isAnalyzing = FALSE
    /\ frameCount = 0
    /\ fonts \in FontSets
    /\ page = <<>>
    /\ notifications = <<>>
    /\ awaiting = <<>>
    /\ requested = 0

\* the UI posts a request other than 'analyze'
postRequest ==
    /\ requested < MaxRequests
    /\ \E type \in RequestTypes :
            toPlugin' = Append(toPlugin, Message(type, payloadOf(type)))
    /\ requested' = requested + 1
    /\ UNCHANGED <<patterns, uiVariant, screens, backendResult, uiResult, uiError, clock>>
    /\ UNCHANGED <<lookup, walkVars, history, batchVars>>
    /\ UNCHANGED <<pluginVariant, selection, toUi, lastAnalysisResult, enrichedScreensCache,
                   enrichedScreens, error, isAnalyzing>>
    /\ UNCHANGED <<frameCount, fonts, page, notifications, awaiting>>

\* figma.ui.onmessage, cases 'insert-placeholders' and 'generate-report', up to
\* the first await
OnReportRequest ==
    /\ toPlugin # <<>> /\ Head(toPlugin).type \in ReportRequests
    /\ toPlugin' = Tail(toPlugin)
    /\ LET type == Head(toPlugin).type
           withIssues ==
                IF lastAnalysisResult = Null THEN <<>>
                ELSE SelectSeq(lastAnalysisResult.screens, LAMBDA screen : Len(screen.issues) > 0)
       IN  IF pluginVariant = "mappings"
           THEN IF type = "generate-report"
                THEN /\ notifications' =
                            Append(notifications, Notice(<<"R","e","p","o","r","t"," ","g","e","n","e","r","a","t","i","o","n"," ","c","o","m","i","n","g"," ","s","o","o","n","!">>))
                     /\ UNCHANGED <<toUi, awaiting>>
                ELSE IF runAnalysisFirst(pluginVariant)
                THEN /\ toUi' = Append(toUi, Message("error",
                                    [message |-> pleaseRunAnalysisFirst(pluginVariant)]))
                     /\ UNCHANGED <<notifications, awaiting>>
                ELSE IF withIssues = <<>>
                THEN /\ notifications' =
                            Append(notifications, NoticeOf(<<"C","r","e","a","t","e","d"," ","a","n","n","o","t","a","t","i","o","n"," ","c","a","r","d","s">>, 0))
                     /\ UNCHANGED <<toUi, awaiting>>
                ELSE /\ awaiting' = Append(awaiting, Suspended(type, "card", Null, withIssues, 0))
                     /\ UNCHANGED <<toUi, notifications>>
           ELSE IF runAnalysisFirst(pluginVariant)
                THEN /\ notifications' =
                            Append(notifications, Notice(pleaseRunAnalysisFirst(pluginVariant)))
                     /\ UNCHANGED <<toUi, awaiting>>
                ELSE /\ awaiting' = Append(awaiting, Suspended(type, "report", Null, <<>>, 0))
                     /\ UNCHANGED <<toUi, notifications>>
    /\ UNCHANGED <<patterns, uiVariant, screens, backendResult, uiResult, uiError, clock>>
    /\ UNCHANGED <<lookup, walkVars, history, batchVars>>
    /\ UNCHANGED <<pluginVariant, selection, lastAnalysisResult, enrichedScreensCache,
                   enrichedScreens, error, isAnalyzing>>
    /\ UNCHANGED <<frameCount, fonts, page, requested>>

\* figma.ui.onmessage, the other cases; a type without a case has no effect
OnOtherRequest ==
    /\ toPlugin # <<>> /\ Head(toPlugin).type \in RequestTypes \ ReportRequests
    /\ toPlugin' = Tail(toPlugin)
    /\ LET type == Head(toPlugin).type
           payload == Head(toPlugin).payload
           table == componentsOf(pluginVariant)
       IN  IF type \notin casesOf(pluginVariant)
           THEN UNCHANGED <<toUi, notifications>>
           ELSE IF type = "insert-component"
           THEN /\ notifications' =
                        IF payload.componentKey = <<>>
                        THEN Append(notifications, Notice(<<"C","o","m","p","o","n","e","n","t"," ","k","e","y"," ","n","o","t"," ","c","o","n","f","i","g","u","r","e","d">>))
                        ELSE Append(notifications, Notice(<<"C","o","u","l","d"," ","n","o","t"," ","i","n","s","e","r","t"," ","c","o","m","p","o","n","e","n","t">>))
                /\ UNCHANGED toUi
           ELSE IF type = "find-component"
           THEN LET info == findComponentInfo(table, payload.componentName)
                    found == IF pluginVariant = "mappings"
                             THEN info # <<>> /\ info[1].key # <<>>
                             ELSE info # <<>>
                IN  /\ toUi' = Append(toUi, Message("component-found",
                            IF found
                            THEN [found |-> TRUE, name |-> info[1].name]
                            ELSE [found |-> FALSE, name |-> payload.componentName]))
                    /\ UNCHANGED notifications
           ELSE /\ toUi' = Append(toUi, Message("library-loaded",
                        [componentCount |->
                            IF pluginVariant = "mappings"
                            THEN Len(SelectSeq(table, LAMBDA c : c.key # <<>>))
                            ELSE Len(table)]))
                /\ UNCHANGED notifications
    /\ UNCHANGED <<patterns, uiVariant, screens, backendResult, uiResult, uiError, clock>>
    /\ UNCHANGED <<lookup, walkVars, history, batchVars>>
    /\ UNCHANGED <<pluginVariant, selection, lastAnalysisResult, enrichedScreensCache,
                   enrichedScreens, error, isAnalyzing>>
    /\ UNCHANGED <<frameCount, fonts, page, awaiting, requested>>

\* a suspended handler goes on after its await, up to its next await or its end
ResumeHandler ==
    /\ \E h \in 1..Len(awaiting) :
           LET waiting == awaiting[h]
               others == SubSeq(awaiting, 1, h - 1) \o SubSeq(awaiting, h + 1, Len(awaiting))
           IN  IF ~fontsLoaded
               THEN \* the simplified build reports it, the others end with the rejection
                    /\ awaiting' = others
                    /\ notifications' =
                           IF pluginVariant = "simplified"
                           THEN Append(notifications, Notice(<<"C","o","u","l","d"," ","n","o","t"," ","l","o","a","d"," ","f","o","n","t","s">>))
                           ELSE notifications
                    /\ UNCHANGED <<page, selection, toUi>>
               ELSE IF waiting.at = "report"
               THEN LET report == reportFrame(nextNodeId, lastAnalysisResult, enrichedScreensCache)
                    IN  /\ page' = Append(page, report)
                        /\ selection' = <<exported(report)>>
                        /\ toUi' = Append(toUi, selectionChanged(selection'))
                        /\ IF pluginVariant = "library" /\ waiting.type = "insert-placeholders"
                           THEN IF runAnalysisFirst(pluginVariant)
                                THEN /\ awaiting' = others
                                     /\ notifications' = notifications
                                           \o <<Notice(pleaseRunAnalysisFirst(pluginVariant)),
                                                Notice(reportDone(pluginVariant, waiting.type))>>
                                ELSE /\ awaiting' = Append(others,
                                           Suspended(waiting.type, "components", report, <<>>, 0))
                                     /\ UNCHANGED notifications
                           ELSE /\ awaiting' = others
                                /\ notifications' = Append(notifications,
                                       Notice(reportDone(pluginVariant, waiting.type)))
               ELSE IF waiting.at = "components"
               THEN LET needed == componentsNeeded(pluginVariant, enrichedScreensCache)
                        components == componentsFrame(nextNodeId, enrichedScreensCache, needed)
                    IN  /\ awaiting' = others
                        /\ IF needed = <<>>
                           THEN /\ notifications' = notifications
                                       \o <<Notice(<<"N","o"," ","c","o","m","p","o","n","e","n","t","s"," ","n","e","e","d","e","d","!">>),
                                            Notice(reportDone(pluginVariant, waiting.type))>>
                                /\ UNCHANGED <<page, selection, toUi>>
                           ELSE /\ page' = Append(page, components)
                                /\ selection' = <<exported(waiting.report), exported(components)>>
                                /\ toUi' = Append(toUi, selectionChanged(selection'))
                                /\ notifications' = Append(notifications,
                                       Notice(reportDone(pluginVariant, waiting.type)))
               ELSE \* createAnnotationCard, after its await
                    /\ page' = Append(page, annotationCard(nextNodeId, waiting.todo[1]))
                    /\ IF Len(waiting.todo) > 1
                       THEN /\ awaiting' = Append(others,
                                   Suspended(waiting.type, "card", Null, Tail(waiting.todo),
                                             waiting.created + 1))
                            /\ UNCHANGED notifications
                       ELSE /\ awaiting' = others
                            /\ notifications' = Append(notifications,
                                   NoticeOf(<<"C","r","e","a","t","e","d"," ","a","n","n","o","t","a","t","i","o","n"," ","c","a","r","d","s">>, waiting.created + 1))
                    /\ UNCHANGED <<selection, toUi>>
    /\ UNCHANGED <<patterns, uiVariant, screens, backendResult, uiResult, uiError, clock>>
    /\ UNCHANGED <<lookup, walkVars, history, batchVars>>
    /\ UNCHANGED <<pluginVariant, toPlugin, lastAnalysisResult, enrichedScreensCache,
                   enrichedScreens, error, isAnalyzing>>
    /\ UNCHANGED <<frameCount, fonts, requested>>

\* window.onmessage: 'library-loaded' touches the status line only, and a type
\* without a case is dropped
UiOnOther ==
    /\ toUi # <<>> /\ Head(toUi).type \in {"library-loaded", "component-found"}
    /\ toUi' = Tail(toUi)
    /\ UNCHANGED <<patterns, uiVariant, screens, backendResult, uiResult, uiError, clock>>
    /\ UNCHANGED <<lookup, walkVars, history, batchVars, reportVars>>
    /\ UNCHANGED <<pluginVariant, selection, toPlugin, lastAnalysisResult,
                   enrichedScreensCache, enrichedScreens, error, isAnalyzing>>

\* the user leaves the selection alone; what the plugin draws changes it
NextReport ==
    \/ handleAnalyze
    \/ OnAnalyze
    \/ OnAnalysisComplete
    \/ UiOnSelectionChanged
    \/ UiOnScreensExported
    \/ UiOnResultsEnriched
    \/ UiOnError
    \/ postRequest
    \/ OnReportRequest
    \/ OnOtherRequest
    \/ ResumeHandler
    \/ UiOnOther

SpecReport == InitReport /\ [][NextReport]_vars

\* the build that draws both frames, on a machine that has its font, with a user
\* who also changes the selection
InitCanvas == InitReport /\ pluginVariant = "library" /\ loads("Inter")

NextCanvas == NextReport \/ sendSelectionUpdate

SpecCanvas == InitCanvas /\ [][NextCanvas]_vars

(***************************************************************************)
(* One call of analyzeScreens followed step by step: screens.map calls     *)
(* detectPatterns and checkMissingEdgeCases on each screen in turn, and    *)
(* each of the two calls getTextContent on the screen.  A call of          *)
(* getTextContent is a frame holding its node and the child its loop is    *)
(* at; child 0 means that the name has not been pushed yet.                *)
(***************************************************************************)
MaxDepth == 2

\* a node with two children down to the given depth; every id is its path
RECURSIVE TreeOf(_, _)
TreeOf(depth, id) ==
    IF depth = 0
    THEN Leaf(id, <<"S","u","b","m","i","t"," ","B","u","t","t","o","n">>, <<"T","E","X","T">>, TRUE)
    ELSE Parent(id, <<"G","r","o","u","p">>, <<"F","R","A","M","E">>, TRUE,
                <<TreeOf(depth - 1, id \o <<";","1">>), TreeOf(depth - 1, id \o <<";","2">>)>>)

\* the children a screen of the walk may have; null stands where a child is missing
WalkChildLists ==
    {NoChildren, <<Null, Leaf(<<"2",":","1">>, <<"E","m","a","i","l">>, <<"T","E","X","T">>, TRUE)>>}
    \cup {<<TreeOf(depth, <<"1">>)>> : depth \in 0..MaxDepth}

WalkPool(pos) ==
    {Screen(ScreenIds[pos], <<"L","o","g","i","n"," ","F","o","r","m">>, Phone, children, <<>>) : children \in WalkChildLists}

WalkLists ==
    {<<>>} \cup {<<a>> : a \in WalkPool(1)} \cup {<<a, b>> : a \in WalkPool(1), b \in WalkPool(2)}

Frame(node) == [node |-> node, child |-> 0]

\* a slip: the loop goes over the first child once more at its end
childrenOfAndFirstAgain(node) ==
    IF "children" \in DOMAIN node /\ node.children # <<>>
    THEN Append(node.children, node.children[1])
    ELSE <<>>

\* node.children of the loop, nothing when the node has none
childrenOf(node) == IF "children" \in DOMAIN node THEN node.children ELSE <<>>

InitWalk ==
    /\ patterns = KbCustom
    /\ uiVariant = "v2"
    /\ screens \in WalkLists
    /\ backendResult = Null
    /\ uiResult = Null
    /\ uiError = "none"
    /\ clock = 0
    /\ history = <<>>
    /\ NoBatch
    /\ NoPlugin
    /\ NoLookup
    /\ walkPc = "analyzeScreens"
    /\ screenIndex = 1
    /\ callStack = <<>>
    /\ accumulatedNames = <<>>
    /\ visits = <<>>

\* analyzeScreens: the callback of screens.map calls detectPatterns, which calls
\* getTextContent(screen) with a fresh array
CallDetectPatterns ==
    /\ walkPc = "analyzeScreens" /\ screenIndex <= Len(screens)
    /\ walkPc' = "detectPatterns"
    /\ callStack' = <<Frame(screens[screenIndex])>>
    /\ accumulatedNames' = <<>>
    /\ visits' = <<>>
    /\ UNCHANGED <<patterns, uiVariant, screens, backendResult, uiResult, uiError, clock>>
    /\ UNCHANGED <<lookup, history, batchVars, pluginVars, reportVars, screenIndex>>

\* getTextContent, up to its loop: a missing node returns at once, a node's name is pushed
PushName ==
    /\ callStack # <<>> /\ callStack[Len(callStack)].child = 0
    /\ LET node == callStack[Len(callStack)].node
       IN  IF node = Null
           THEN /\ callStack' = SubSeq(callStack, 1, Len(callStack) - 1)
                /\ UNCHANGED <<accumulatedNames, visits>>
           ELSE /\ accumulatedNames' = Append(accumulatedNames, toLowerCase(node.name))
                /\ visits' = Append(visits, node.id)
                /\ callStack' = [callStack EXCEPT ![Len(callStack)].child = 1]
    /\ UNCHANGED <<patterns, uiVariant, screens, backendResult, uiResult, uiError, clock>>
    /\ UNCHANGED <<lookup, history, batchVars, pluginVars, reportVars, walkPc, screenIndex>>

\* getTextContent, one turn of its loop: the call on the next child
CallOnChild ==
    /\ callStack # <<>>
    /\ LET top == callStack[Len(callStack)]
       IN  /\ top.child >= 1 /\ top.child <= Len(childrenOf(top.node))
           /\ callStack' = Append([callStack EXCEPT ![Len(callStack)].child = top.child + 1],
                               Frame(childrenOf(top.node)[top.child]))
    /\ UNCHANGED <<patterns, uiVariant, screens, backendResult, uiResult, uiError, clock>>
    /\ UNCHANGED <<lookup, history, batchVars, pluginVars, reportVars, walkPc, screenIndex, accumulatedNames, visits>>

\* getTextContent: the loop is over, return accumulated
ReturnAccumulated ==
    /\ callStack # <<>>
    /\ LET top == callStack[Len(callStack)]
       IN  /\ top.child >= 1 /\ top.child > Len(childrenOf(top.node))
           /\ callStack' = SubSeq(callStack, 1, Len(callStack) - 1)
    /\ UNCHANGED <<patterns, uiVariant, screens, backendResult, uiResult, uiError, clock>>
    /\ UNCHANGED <<lookup, history, batchVars, pluginVars, reportVars, walkPc, screenIndex, accumulatedNames, visits>>

\* detectPatterns has its text and returns; checkMissingEdgeCases is called and
\* calls getTextContent(screen) with a fresh array again
CallCheckMissingEdgeCases ==
    /\ walkPc = "detectPatterns" /\ callStack = <<>>
    /\ walkPc' = "checkMissingEdgeCases"
    /\ callStack' = <<Frame(screens[screenIndex])>>
    /\ accumulatedNames' = <<>>
    /\ visits' = <<>>
    /\ UNCHANGED <<patterns, uiVariant, screens, backendResult, uiResult, uiError, clock>>
    /\ UNCHANGED <<lookup, history, batchVars, pluginVars, reportVars, screenIndex>>

\* checkMissingEdgeCases has its text and returns; the map goes on to the next screen
NextScreen ==
    /\ walkPc = "checkMissingEdgeCases" /\ callStack = <<>>
    /\ walkPc' = "analyzeScreens"
    /\ screenIndex' = screenIndex + 1
    /\ UNCHANGED <<patterns, uiVariant, screens, backendResult, uiResult, uiError, clock>>
    /\ UNCHANGED <<lookup, history, batchVars, pluginVars, reportVars, callStack, accumulatedNames, visits>>

\* analyzeScreens: the map is over, the counts and the flow issues are computed
\* and the result is returned
ReturnResult ==
    /\ walkPc = "analyzeScreens" /\ screenIndex > Len(screens)
    /\ backendResult' = analyzeScreens(screens, clock)
    /\ clock' = clock + 1
    /\ walkPc' = "returned"
    /\ UNCHANGED <<patterns, uiVariant, screens, uiResult, uiError>>
    /\ UNCHANGED <<lookup, history, batchVars, pluginVars, reportVars, screenIndex, callStack, accumulatedNames, visits>>

NextWalk ==
    \/ CallDetectPatterns
    \/ PushName
    \/ CallOnChild
    \/ ReturnAccumulated
    \/ CallCheckMissingEdgeCases
    \/ NextScreen
    \/ ReturnResult

\* the steps inside the map, and the step that leaves analyzeScreens as the walk
\* variables show it
Walking ==
    \/ CallDetectPatterns
    \/ PushName
    \/ CallOnChild
    \/ ReturnAccumulated
    \/ CallCheckMissingEdgeCases
    \/ NextScreen

Returning ==
    /\ walkPc = "analyzeScreens" /\ screenIndex > Len(screens)
    /\ walkPc' = "returned"

\* the call runs on one thread that nothing suspends: a step that can be taken is taken
SpecWalk ==
    InitWalk /\ [][NextWalk]_vars /\ WF_walkVars(Walking) /\ WF_walkPc(Returning)

(***************************************************************************)
(* Vocabulary of the properties.                                            *)
(***************************************************************************)
Severities == {"critical", "warning", "info"}

Results == {backendResult, uiResult} \ {Null}

RECURSIVE SumOfIssues(_)
SumOfIssues(analyses) ==
    IF analyses = <<>> THEN 0
    ELSE Len(Head(analyses).issues) + SumOfIssues(Tail(analyses))

Range(list) == {list[i] : i \in 1..Len(list)}

AllIssuesOf(result) == UNION {Range(result.screens[s].issues) : s \in 1..Len(result.screens)}

\* the names of a node and of every node below it, depth first, parents first
RECURSIVE NamesPreOrder(_)
NamesPreOrder(node) ==
    <<node.name>>
    \o (IF "children" \in DOMAIN node
        THEN flat([c \in 1..Len(node.children) |-> NamesPreOrder(node.children[c])])
        ELSE <<>>)

\* the flattened text of section 4.1
FlattenedText(screen) == toLowerCase(join(NamesPreOrder(screen), <<" ">>))

\* what analyzeLocally searches, before it is lower-cased
SearchedByLocal(screen) == screen.name \o <<" ">> \o stringifyList(screen.children)

OccursIgnoringCase(text, word) == includes(toLowerCase(text), toLowerCase(word))

ValidSeverities(kb) ==
    \A p \in 1..Len(kb) : \A e \in 1..Len(kb[p].pattern.requiredEdgeCases) :
        kb[p].pattern.requiredEdgeCases[e].severity \in Severities

(***************************************************************************)
(* C1: the totalIssues of every AnalysisResult, of analyzeScreens and of    *)
(* analyzeLocally, is the sum of the lengths of its screens' issue lists.   *)
(***************************************************************************)
C1_TotalIssuesIsSum ==
    \A r \in Results : r.totalIssues = SumOfIssues(r.screens)

C1_Witness ==
    /\ backendResult # Null /\ uiResult # Null
    /\ Len(screens) = 2
    /\ \A s \in 1..2 : /\ Len(backendResult.screens[s].issues) > 0
                       /\ Len(uiResult.screens[s].issues) > 0

(***************************************************************************)
(* C2, as claimed: whatever knowledge base the backend was started with,    *)
(* every issue has a severity among critical, warning and info, and the     *)
(* three severity counts add up to totalIssues.                             *)
(***************************************************************************)
SeveritiesPartition(r) ==
    /\ \A i \in AllIssuesOf(r) : i.severity \in Severities
    /\ r.criticalCount + r.warningCount + r.infoCount = r.totalIssues

C2_AnyKnowledgeBase ==
    \A r \in Results : SeveritiesPartition(r)

(***************************************************************************)
(* C2, amended: the same holds for every knowledge base whose edge cases    *)
(* all declare a severity among critical, warning and info (and always      *)
(* for analyzeLocally, whose table is compiled in).                         *)
(***************************************************************************)
C2_ValidKnowledgeBase ==
    /\ uiResult # Null => SeveritiesPartition(uiResult)
    /\ (backendResult # Null /\ ValidSeverities(patterns)) => SeveritiesPartition(backendResult)

C2_Witness ==
    /\ backendResult # Null /\ uiResult # Null
    /\ ValidSeverities(patterns)
    /\ backendResult.criticalCount > 0 /\ backendResult.infoCount > 0
    /\ uiResult.criticalCount > 0 /\ uiResult.warningCount > 0

(***************************************************************************)
(* The edge-case checker as section 4.3 describes it.                       *)
(***************************************************************************)
CommonIndicatorWords ==
    {<<"e","r","r","o","r">>, <<"l","o","a","d","i","n","g">>, <<"e","m","p","t","y">>, <<"s","k","e","l","e","t","o","n">>, <<"s","p","i","n","n","e","r">>, <<"a","l","e","r","t">>, <<"t","o","a","s","t">>}

HasCommonWord(text) == \E w \in CommonIndicatorWords : includes(text, w)

HasOwnIndicator(text, edgeCase) ==
    \/ includes(text, replaceDashes(edgeCase.id))
    \/ \E c \in 1..Len(edgeCase.suggestedComponents) :
            includes(text, toLowerCase(edgeCase.suggestedComponents[c]))

NoIndicator(text, edgeCase) == ~HasOwnIndicator(text, edgeCase) /\ ~HasCommonWord(text)

\* the table of each analyzer in one shape: <<pattern id, keywords, edge cases>>
BackendTable ==
    [p \in 1..Len(patterns) |->
        [id |-> patterns[p].id,
         keywords |-> patterns[p].pattern.detectionKeywords,
         edgeCases |-> patterns[p].pattern.requiredEdgeCases]]

LocalTable ==
    [p \in 1..Len(localPatterns(uiVariant)) |->
        [id |-> localPatterns(uiVariant)[p].id,
         keywords |-> localPatterns(uiVariant)[p].pattern.keywords,
         edgeCases |-> localPatterns(uiVariant)[p].pattern.edgeCases]]

DetectedRows(table, analysis) ==
    SelectSeq(table, LAMBDA row : row.id \in Range(analysis.detectedPatterns))

HasIssueFor(analysis, row, edgeCase) ==
    \E i \in Range(analysis.issues) : i.patternId = row.id /\ i.edgeCaseId = edgeCase.id

\* an issue for exactly the required edge cases none of whose indicators occurs
IssuesFollowIndicators(table, result) ==
    \A s \in 1..Len(screens) :
        \A row \in Range(DetectedRows(table, result.screens[s])) :
            \A edgeCase \in Range(row.edgeCases) :
                HasIssueFor(result.screens[s], row, edgeCase)
                    <=> NoIndicator(FlattenedText(screens[s]), edgeCase)

C3_Backend == backendResult # Null => IssuesFollowIndicators(BackendTable, backendResult)

C3_Local == uiResult # Null => IssuesFollowIndicators(LocalTable, uiResult)

(***************************************************************************)
(* C3, as claimed: for each screen, detected pattern and required edge      *)
(* case, an issue is emitted if and only if the flattened text contains     *)
(* neither the edge-case id with dashes as spaces, nor a lower-cased        *)
(* suggested component, nor one of the seven common indicators; in the      *)
(* backend and in analyzeLocally.                                           *)
(***************************************************************************)
C3_IssueIffNoIndicator == C3_Backend /\ C3_Local

(***************************************************************************)
(* C4, as claimed: a screen with a detected pattern whose flattened text    *)
(* contains one of the seven common indicators has no issues, in the        *)
(* backend and in analyzeLocally alike.                                     *)
(***************************************************************************)
CommonWordSuppresses(result) ==
    \A s \in 1..Len(screens) :
        (/\ result.screens[s].detectedPatterns # <<>>
         /\ HasCommonWord(FlattenedText(screens[s])))
            => result.screens[s].issues = <<>>

C4_Backend == backendResult # Null => CommonWordSuppresses(backendResult)

C4_CommonIndicatorSuppressesAll == \A r \in Results : CommonWordSuppresses(r)

(***************************************************************************)
(* C5: detectedPatterns of a screen is exactly the set of pattern ids with  *)
(* at least one keyword that occurs, letter case ignored and anywhere       *)
(* inside a word, in the text the analyzer searches for that screen.        *)
(***************************************************************************)
MatchingIds(table, text) ==
    {table[p].id : p \in {q \in 1..Len(table) :
        \E kw \in Range(table[q].keywords) : OccursIgnoringCase(text, kw)}}

DetectsExactly(table, result, Searched(_)) ==
    \A s \in 1..Len(screens) :
        /\ Range(result.screens[s].detectedPatterns) = MatchingIds(table, Searched(screens[s]))
        /\ Len(result.screens[s].detectedPatterns)
            = Cardinality(Range(result.screens[s].detectedPatterns))

NamesJoined(screen) == join(NamesPreOrder(screen), <<" ">>)

IssuesOnlyOfDetected(table, result, Searched(_)) ==
    \A s \in 1..Len(screens) :
        LET analysis == result.screens[s]
        IN  /\ \A i \in Range(analysis.issues) : i.patternId \in Range(analysis.detectedPatterns)
            /\ \A row \in Range(table) :
                    (\A kw \in Range(row.keywords) : ~OccursIgnoringCase(Searched(screens[s]), kw))
                        => /\ row.id \notin Range(analysis.detectedPatterns)
                           /\ \A i \in Range(analysis.issues) : i.patternId # row.id
            /\ analysis.detectedPatterns = <<>> => analysis.issues = <<>>

WithoutScreenId(issue) ==
    [patternId |-> issue.patternId, edgeCaseId |-> issue.edgeCaseId, name |-> issue.name,
     description |-> issue.description, severity |-> issue.severity,
     suggestedComponents |-> issue.suggestedComponents, screenName |-> issue.screenName]

SameAnalysis(a, b) ==
    /\ a.detectedPatterns = b.detectedPatterns
    /\ Len(a.issues) = Len(b.issues)
    /\ \A i \in 1..Len(a.issues) : WithoutScreenId(a.issues[i]) = WithoutScreenId(b.issues[i])
    /\ a.missingStates = b.missingStates

SameNamesSameAnalysis(result) ==
    \A s1, s2 \in 1..Len(screens) :
        NamesPreOrder(screens[s1]) = NamesPreOrder(screens[s2])
            => SameAnalysis(result.screens[s1], result.screens[s2])

C7_Backend ==
    /\ \A s \in 1..Len(screens) : textContentOf(screens[s]) = FlattenedText(screens[s])
    /\ backendResult # Null => SameNamesSameAnalysis(backendResult)

C7_Local == uiResult # Null => SameNamesSameAnalysis(uiResult)

C7_OnlyNamesAreSearched == C7_Backend /\ C7_Local

(***************************************************************************)
(* C8, as claimed: the issues of a screen are either none or exactly one    *)
(* for every required edge case of every detected pattern.                  *)
(***************************************************************************)
RequiredKeys(rows) ==
    flat([p \in 1..Len(rows) |->
            [e \in 1..Len(rows[p].edgeCases) |-> <<rows[p].id, rows[p].edgeCases[e].id>>]])

IssueKeys(analysis) ==
    [i \in 1..Len(analysis.issues) |->
        <<analysis.issues[i].patternId, analysis.issues[i].edgeCaseId>>]

AllOrNothing(table, result) ==
    \A s \in 1..Len(screens) :
        \/ result.screens[s].issues = <<>>
        \/ IssueKeys(result.screens[s]) = RequiredKeys(DetectedRows(table, result.screens[s]))

C8_AllOrNothingPerScreen ==
    /\ backendResult # Null => AllOrNothing(BackendTable, backendResult)
    /\ uiResult # Null => AllOrNothing(LocalTable, uiResult)

(***************************************************************************)
(* C8, amended: in analyzeLocally the issues of a screen are none or one    *)
(* for every required edge case of every detected pattern.  In the backend  *)
(* a screen whose text holds a common indicator has no issues, and any      *)
(* other screen has exactly one issue for each required edge case of its    *)
(* detected patterns whose own indicators (its id with dashes as spaces,    *)
(* its suggested components, both lower-cased) are absent from the text:    *)
(* an edge case is also suppressed alone.                                   *)
(***************************************************************************)
HasOwnIndicatorLowerCased(text, edgeCase) ==
    \/ includes(text, toLowerCase(replaceDashes(edgeCase.id)))
    \/ \E c \in 1..Len(edgeCase.suggestedComponents) :
            includes(text, toLowerCase(edgeCase.suggestedComponents[c]))

OwnIndicatorAbsent(text, rows) ==
    flat([p \in 1..Len(rows) |->
            flat([e \in 1..Len(rows[p].edgeCases) |->
                    IF HasOwnIndicatorLowerCased(text, rows[p].edgeCases[e])
                    THEN <<>>
                    ELSE << <<rows[p].id, rows[p].edgeCases[e].id>> >>])])

SuppressedPerEdgeCase(table, result) ==
    \A s \in 1..Len(screens) :
        LET text == FlattenedText(screens[s])
        IN  IssueKeys(result.screens[s]) =
                IF HasCommonWord(text) THEN <<>>
                ELSE OwnIndicatorAbsent(text, DetectedRows(table, result.screens[s]))

C8_SuppressionPerAnalyzer ==
    /\ backendResult # Null => SuppressedPerEdgeCase(BackendTable, backendResult)
    /\ uiResult # Null => AllOrNothing(LocalTable, uiResult)

C8_Witness ==
    /\ backendResult # Null /\ uiResult # Null
    /\ Len(screens) = 2
    /\ Len(RequiredKeys(DetectedRows(BackendTable, backendResult.screens[1]))) = 3
    /\ Len(backendResult.screens[1].issues) = 2
    /\ Len(uiResult.screens[1].issues) = 3
    /\ HasCommonWord(FlattenedText(screens[2]))
    /\ backendResult.screens[2].detectedPatterns # <<>>
    /\ backendResult.screens[2].issues = <<>>

(***************************************************************************)
(* C9, as claimed: orphanScreens lists the names of exactly the screens     *)
(* whose id is no targetFrameId in the connections of any other screen of   *)
(* the batch (a screen's connection to itself is no inbound edge), in the   *)
(* backend and in analyzeLocally.                                           *)
(***************************************************************************)
NamesWhere(list, Keep(_)) ==
    LET kept == SelectSeq([i \in 1..Len(list) |-> i], Keep)
    IN  [k \in 1..Len(kept) |-> list[kept[k]].name]

Targets(s) ==
    IF "connections" \in DOMAIN s
    THEN {s.connections[c].targetFrameId : c \in 1..Len(s.connections)}
    ELSE {}

TargetedByAnother(list, i) == \E j \in 1..Len(list) : j # i /\ list[i].id \in Targets(list[j])

TargetedByAny(list, i) == \E j \in 1..Len(list) : list[i].id \in Targets(list[j])

C9_Backend ==
    backendResult # Null =>
        backendResult.flowIssues.orphanScreens
            = NamesWhere(screens, LAMBDA i : ~TargetedByAny(screens, i))

C9_OrphansHaveNoInboundEdge ==
    \A r \in Results :
        r.flowIssues.orphanScreens
            = NamesWhere(screens, LAMBDA i : ~TargetedByAnother(screens, i))

(***************************************************************************)
(* C10, as claimed: deadEnds lists the names of exactly the screens whose   *)
(* connections are empty or absent, and a screen without a connections      *)
(* field raises no error, in the backend and in analyzeLocally alike.       *)
(***************************************************************************)
IsDeadEnd(s) == "connections" \notin DOMAIN s \/ s.connections = <<>>

DeadEndsListed(result) ==
    result.flowIssues.deadEnds = NamesWhere(screens, LAMBDA i : IsDeadEnd(screens[i]))

C10_Backend == backendResult # Null => DeadEndsListed(backendResult)

C10_Local == uiResult # Null => DeadEndsListed(uiResult)

Isolated(list, i) == IsDeadEnd(list[i]) /\ ~TargetedByAny(list, i)

\* the number of entries of names that are the name
Occurrences(names, name) == Cardinality({k \in 1..Len(names) : names[k] = name})

InBothLists(result) ==
    /\ result.flowIssues.deadEnds = NamesWhere(screens, LAMBDA i : IsDeadEnd(screens[i]))
    /\ result.flowIssues.orphanScreens
            = NamesWhere(screens, LAMBDA i : ~TargetedByAny(screens, i))
    /\ \A i \in 1..Len(screens) :
            Isolated(screens, i) =>
                LET isolatedSoNamed ==
                        Cardinality({j \in 1..Len(screens) :
                            Isolated(screens, j) /\ screens[j].name = screens[i].name})
                IN  /\ Occurrences(result.flowIssues.deadEnds, screens[i].name)
                            >= isolatedSoNamed
                    /\ Occurrences(result.flowIssues.orphanScreens, screens[i].name)
                            >= isolatedSoNamed

C11_Backend == backendResult # Null => InBothLists(backendResult)

C11_InBothLists == \A r \in Results : InBothLists(r)

(***************************************************************************)
(* C12: analysis is deterministic and keeps nothing from one call to the   *)
(* next: two calls of the same analyzer on the same screen list, whatever   *)
(* was analysed in between, return results that are equal in every field    *)
(* but timestamp.                                                           *)
(***************************************************************************)
WithoutTimestamp(result) == [f \in DOMAIN result \ {"timestamp"} |-> result[f]]

SameCall(i, j) ==
    /\ history[i].analyzer = history[j].analyzer
    /\ history[i].input = history[j].input

ZeroResult(result) ==
    /\ result.totalScreens = 0
    /\ result.totalIssues = 0
    /\ result.criticalCount = 0 /\ result.warningCount = 0 /\ result.infoCount = 0
    /\ result.screens = <<>>
    /\ result.flowIssues = [deadEnds |-> <<>>, orphanScreens |-> <<>>]

\* the analyzers themselves, called on the empty list
C13_Analyzers == \A r \in Results : screens = <<>> => ZeroResult(r)

C13_AnalyzersWitness == screens = <<>> /\ backendResult # Null /\ uiResult # Null

C13_EmptyIsNoError ==
    /\ \A r \in Results : screens = <<>> => ZeroResult(r)
    /\ \A m \in 1..Len(toUi) : toUi[m].type # "error"
    /\ error = Null

(***************************************************************************)
(* C14, as claimed: for a screen named "Login Form" whose only child is     *)
(* named "Submit Button", form-submission is detected and exactly the three *)
(* issues "Validation Error State", "Submission Loading" and "Success       *)
(* Confirmation" are raised for it, whatever components the knowledge base  *)
(* suggests for those edge cases ("Button" included).                       *)
(***************************************************************************)
IsLoginExample(s) == s.name = <<"L","o","g","i","n"," ","F","o","r","m">> /\ s.children = SubmitButton

LoginExampleText == <<"l","o","g","i","n"," ","f","o","r","m"," ","s","u","b","m","i","t"," ","b","u","t","t","o","n">>

ThreeStates ==
    <<<<"V","a","l","i","d","a","t","i","o","n"," ","E","r","r","o","r"," ","S","t","a","t","e">>, <<"S","u","b","m","i","s","s","i","o","n"," ","L","o","a","d","i","n","g">>, <<"S","u","c","c","e","s","s"," ","C","o","n","f","i","r","m","a","t","i","o","n">>>>

IssueNamesOf(analysis, patternId) ==
    LET raised == SelectSeq(analysis.issues, LAMBDA i : i.patternId = patternId)
    IN  [i \in 1..Len(raised) |-> raised[i].name]

FormRow(table) == SelectSeq(table, LAMBDA row : row.id = <<"f","o","r","m","-","s","u","b","m","i","s","s","i","o","n">>)[1]

FormDetected(analysis) == <<"f","o","r","m","-","s","u","b","m","i","s","s","i","o","n">> \in Range(analysis.detectedPatterns)

C14_ThreeIssuesWhateverSuggested ==
    \A r \in Results : \A s \in 1..Len(screens) :
        IsLoginExample(screens[s]) =>
            /\ FormDetected(r.screens[s])
            /\ IssueNamesOf(r.screens[s], <<"f","o","r","m","-","s","u","b","m","i","s","s","i","o","n">>) = ThreeStates

(***************************************************************************)
(* C14, amended: on that screen form-submission is detected; analyzeLocally *)
(* raises the three issues, and the backend raises, of the three, those     *)
(* whose own indicators (the id with dashes as spaces, the suggested        *)
(* components, lower-cased) are not in "login form submit button": with     *)
(* "Button" suggested for the loading state, "Submission Loading" is not    *)
(* raised.                                                                  *)
(***************************************************************************)
NamesWithoutOwnIndicator(text, edgeCases) ==
    LET absent == SelectSeq(edgeCases, LAMBDA e : ~HasOwnIndicatorLowerCased(text, e))
    IN  [e \in 1..Len(absent) |-> absent[e].name]

C14_ThreeIssuesUnlessSuggested ==
    \A s \in 1..Len(screens) :
        IsLoginExample(screens[s]) =>
            /\ backendResult # Null =>
                    /\ FormDetected(backendResult.screens[s])
                    /\ IssueNamesOf(backendResult.screens[s], <<"f","o","r","m","-","s","u","b","m","i","s","s","i","o","n">>)
                            = NamesWithoutOwnIndicator(LoginExampleText,
                                                       FormRow(BackendTable).edgeCases)
            /\ uiResult # Null =>
                    /\ FormDetected(uiResult.screens[s])
                    /\ IssueNamesOf(uiResult.screens[s], <<"f","o","r","m","-","s","u","b","m","i","s","s","i","o","n">>) = ThreeStates

C14_Witness ==
    /\ backendResult # Null /\ uiResult # Null
    /\ \E s \in 1..Len(screens) :
            /\ IsLoginExample(screens[s])
            /\ IssueNamesOf(backendResult.screens[s], <<"f","o","r","m","-","s","u","b","m","i","s","s","i","o","n">>)
                    = <<<<"V","a","l","i","d","a","t","i","o","n"," ","E","r","r","o","r"," ","S","t","a","t","e">>, <<"S","u","c","c","e","s","s"," ","C","o","n","f","i","r","m","a","t","i","o","n">>>>
            /\ IssueNamesOf(uiResult.screens[s], <<"f","o","r","m","-","s","u","b","m","i","s","s","i","o","n">>) = ThreeStates

(***************************************************************************)
(* C15: every issue carries, unchanged, the severity and the suggested      *)
(* components of the edge case named by its edgeCaseId inside the pattern   *)
(* named by its patternId, and its screenId and screenName are the id and   *)
(* the name of the screen it was raised for.                                *)
(***************************************************************************)
EdgeCasesNamedBy(table, issue) ==
    UNION {{edgeCase \in Range(row.edgeCases) : edgeCase.id = issue.edgeCaseId} :
            row \in {r \in Range(table) : r.id = issue.patternId}}

CarriesVerbatim(table, result) ==
    \A s \in 1..Len(screens) : \A i \in 1..Len(result.screens[s].issues) :
        LET issue == result.screens[s].issues[i]
        IN  /\ EdgeCasesNamedBy(table, issue) # {}
            /\ \A edgeCase \in EdgeCasesNamedBy(table, issue) :
                    /\ issue.severity = edgeCase.severity
                    /\ issue.suggestedComponents = edgeCase.suggestedComponents
            /\ issue.screenId = screens[s].id
            /\ issue.screenName = screens[s].name

C15_IssueCarriesEdgeCase ==
    /\ backendResult # Null => CarriesVerbatim(BackendTable, backendResult)
    /\ uiResult # Null => CarriesVerbatim(LocalTable, uiResult)

\* issues of two screens, with a severity that is no valid one carried as it
\* is, and a warning from the table of the UI
C15_Witness ==
    /\ backendResult # Null /\ uiResult # Null
    /\ Len(screens) = 2
    /\ backendResult.screens[2].issues # <<>>
    /\ \E i \in AllIssuesOf(backendResult) :
            i.severity = "high" /\ i.suggestedComponents = <<<<"B","u","t","t","o","n">>>>
    /\ \E i \in Range(uiResult.screens[2].issues) : i.severity = "warning"

(***************************************************************************)
(* C16: no screen's analysis depends on another screen: the ScreenAnalysis  *)
(* of a screen inside the result of a batch is the single ScreenAnalysis    *)
(* of the result for the list that holds that screen alone, in the backend  *)
(* and in analyzeLocally.                                                   *)
(***************************************************************************)
AnalysedAlone(s) == analyzeScreens(<<screens[s]>>, clock).screens[1]

AnalysedAloneLocally(s) ==
    analyzeLocally(localPatterns(uiVariant), <<screens[s]>>, clock).screens[1]

C16_ScreenAnalysedOnItsOwn ==
    /\ backendResult # Null =>
            \A s \in 1..Len(screens) : backendResult.screens[s] = AnalysedAlone(s)
    /\ uiResult # Null =>
            \A s \in 1..Len(screens) : uiResult.screens[s] = AnalysedAloneLocally(s)

\* a screen with issues that follows a screen whose nodes hold an indicator
C16_Witness ==
    /\ backendResult # Null /\ uiResult # Null
    /\ Len(screens) = 2
    /\ screens[1].children = RowsWithSpinner
    /\ backendResult.screens[1].issues = <<>>
    /\ backendResult.screens[2].issues # <<>>
    /\ uiResult.screens[2].issues # <<>>
    /\ backendResult.flowIssues # analyzeScreens(<<screens[2]>>, clock).flowIssues

(***************************************************************************)
(* C17, as claimed: when a screen file is malformed (its text is no JSON,   *)
(* or the document is no screen and no screen list), the failure is         *)
(* reported to the caller and no results file is written for that file.     *)
(***************************************************************************)
ScreenFields == {"id", "name", "width", "height", "children", "connections"}

IsScreen(value) == ScreenFields \subseteq DOMAIN value

IsScreenList(value) ==
    value.type = "array" /\ \A s \in 1..Len(value.items) : IsScreen(value.items[s])

IsScreenDocument(data) ==
    \/ IsScreenList(data)
    \/ data.type = "object" /\ IsScreen(data.fields)
    \/ data.type = "object" /\ "screens" \in DOMAIN data.fields
            /\ IsScreenList(data.fields.screens)

IsMalformed(content) == ~content.json \/ ~IsScreenDocument(content.data)

HasResults(file) == \E f \in 1..Len(resultsDir.files) : resultsDir.files[f].name = file

\* main has gone through the file
Reached(file) ==
    /\ pc \in {"for", "done", "exit"}
    /\ \E f \in 1..Len(screenFiles) :
            /\ screenFiles[f] = file
            /\ f < fileIndex \/ (f = fileIndex /\ pc = "exit")

Malformed(file) == IsMalformed(readFileSync(screensDir, file))

\* what main does: a file on which JSON.parse or the analysis throws ends
\* the run with that exception and gets no results file
C17_Thrown ==
    /\ uncaught # "none" =>
            /\ pc = "exit"
            /\ Malformed(screenFiles[fileIndex])
            /\ ~HasResults(resultPath(screenFiles[fileIndex]))
    /\ \A f \in 1..Len(screenFiles) :
            LET content == readFileSync(screensDir, screenFiles[f])
            IN  (~content.json \/ content.data.type = "number")
                    => ~HasResults(resultPath(screenFiles[f]))

C17_ThrownWitness ==
    /\ uncaught = "TypeError"
    /\ fileIndex = 2
    /\ HasResults(resultPath(screenFiles[1]))

C17_MalformedFileGetsNoResults ==
    \A f \in 1..Len(screenFiles) :
        Malformed(screenFiles[f]) =>
            /\ ~HasResults(resultPath(screenFiles[f]))
            /\ Reached(screenFiles[f]) => uncaught # "none"

(***************************************************************************)
(* C18, as claimed: after a batch run of main, for every file of the input  *)
(* directory whose name ends in ".json" there is exactly one results file   *)
(* named <base>-results.json, <base> being the name without its trailing    *)
(* ".json" (also for a name that holds ".json" twice, and also when another *)
(* file of the batch is malformed); the output directory is created when    *)
(* absent.                                                                  *)
(***************************************************************************)
RunOver == pc \in {"done", "exit"}

WithoutTrailingJson(file) == SubSeq(file, 1, Len(file) - Len(<<".","j","s","o","n">>))

ExpectedResultsName(file) == WithoutTrailingJson(file) \o <<"-","r","e","s","u","l","t","s",".","j","s","o","n">>

ResultsNamed(name) ==
    Cardinality({f \in 1..Len(resultsDir.files) : resultsDir.files[f].name = name})

\* what main does: a run that ends without exception leaves one results
\* file per screen file, named by replacing the first ".json" of the name;
\* a run ended by an exception leaves them for the files before that one
C18_AsWritten ==
    /\ pc # "load" => resultsDir.exists
    /\ RunOver =>
            \A f \in 1..Len(screenFiles) :
                ResultsNamed(resultPath(screenFiles[f])) =
                    IF pc = "done" \/ f < fileIndex THEN 1 ELSE 0

C18_AsWrittenWitness ==
    /\ pc = "done"
    /\ Len(screenFiles) = 2
    /\ Len(resultsDir.files) = 2

C18_OneResultsFilePerScreenFile ==
    RunOver =>
        /\ resultsDir.exists
        /\ \A f \in 1..Len(screenFiles) :
                ~Malformed(screenFiles[f])
                    => ResultsNamed(ExpectedResultsName(screenFiles[f])) = 1

(***************************************************************************)
(* C19: the enrichment of 'analysis-complete' is never aborted by a         *)
(* suggested component that the component table does not know.  Whenever    *)
(* the plugin handles 'analysis-complete' it posts 'results-enriched', with *)
(* the screens and issues of the result, every field unchanged, and for     *)
(* each issue libraryMatches with one entry per suggested component, in     *)
(* order and named after it; the entry carries library fields only when     *)
(* the component resolves in the table, and is {name} alone otherwise.      *)
(***************************************************************************)
Resolves(variant, comp) ==
    \E c \in Range(componentsOf(variant)) :
        \/ toLowerCase(c.name) = toLowerCase(comp)
        \/ \E a \in Range(c.aliases) : includes(toLowerCase(comp), a)

MatchesFollow(variant, matches, suggestedComponents) ==
    /\ Len(matches) = Len(suggestedComponents)
    /\ \A c \in 1..Len(matches) :
            /\ matches[c].name = suggestedComponents[c]
            /\ DOMAIN matches[c] # {"name"} => Resolves(variant, suggestedComponents[c])
            /\ ~Resolves(variant, suggestedComponents[c]) => DOMAIN matches[c] = {"name"}
            /\ (variant # "mappings" /\ Resolves(variant, suggestedComponents[c]))
                    => DOMAIN matches[c] = {"name", "libraryUrl", "libraryName"}

IssueEnriched(variant, enriched, issue) ==
    /\ DOMAIN enriched = DOMAIN issue \cup {"libraryMatches"}
    /\ \A f \in DOMAIN issue : enriched[f] = issue[f]
    /\ MatchesFollow(variant, enriched.libraryMatches, issue.suggestedComponents)

ScreensEnriched(variant, enriched, result) ==
    /\ Len(enriched) = Len(result.screens)
    /\ \A s \in 1..Len(enriched) :
            /\ DOMAIN enriched[s] = DOMAIN result.screens[s]
            /\ \A f \in DOMAIN enriched[s] \ {"issues"} : enriched[s][f] = result.screens[s][f]
            /\ Len(enriched[s].issues) = Len(result.screens[s].issues)
            /\ \A i \in 1..Len(enriched[s].issues) :
                    IssueEnriched(variant, enriched[s].issues[i], result.screens[s].issues[i])

AnalysisCompleteHandled ==
    /\ toPlugin # <<>>
    /\ Head(toPlugin).type = "analysis-complete"
    /\ toPlugin' = Tail(toPlugin)

EnrichedResultsPosted ==
    /\ Len(toUi') = Len(toUi) + 1
    /\ SubSeq(toUi', 1, Len(toUi)) = toUi
    /\ toUi'[Len(toUi')].type = "results-enriched"
    /\ ScreensEnriched(pluginVariant, toUi'[Len(toUi')].payload.screens,
                       Head(toPlugin).payload.result)

C19_EnrichmentNeverAborts == [][AnalysisCompleteHandled => EnrichedResultsPosted]_vars

\* an enriched result is on its way to the UI in which one suggested
\* component resolved and another did not
C19_Witness ==
    /\ lastAnalysisResult # Null
    /\ pluginVariant # "mappings"
    /\ \E m \in 1..Len(toUi) :
            /\ toUi[m].type = "results-enriched"
            /\ \E s \in 1..Len(toUi[m].payload.screens) :
                    LET issues == toUi[m].payload.screens[s].issues
                    IN  /\ \E i \in 1..Len(issues) :
                                issues[i].libraryMatches = <<[name |-> <<"E","m","p","t","y","S","t","a","t","e">>]>>
                        /\ \E i \in 1..Len(issues) : \E c \in 1..Len(issues[i].libraryMatches) :
                                "libraryUrl" \in DOMAIN issues[i].libraryMatches[c]

(***************************************************************************)
(* C20, as claimed: the detector is one logical component: given the same   *)
(* pattern table and the same screen list, the backend and analyzeLocally   *)
(* produce, for every screen, the same detectedPatterns and the same set    *)
(* of (patternId, edgeCaseId, screenId) issues.                             *)
(***************************************************************************)
SameTable == patterns = KbOfLocal /\ uiVariant = "v2"

IssueTriples(analysis) ==
    {<<issue.patternId, issue.edgeCaseId, issue.screenId>> : issue \in Range(analysis.issues)}

C20_OneLogicalDetector ==
    (SameTable /\ backendResult # Null /\ uiResult # Null) =>
        \A s \in 1..Len(screens) :
            /\ backendResult.screens[s].detectedPatterns = uiResult.screens[s].detectedPatterns
            /\ IssueTriples(backendResult.screens[s]) = IssueTriples(uiResult.screens[s])

(***************************************************************************)
(* C21. An analysis run always runs to completion: for every finite list   *)
(* of screens whose node trees are finite and acyclic, analyzeScreens      *)
(* terminates and returns an AnalysisResult, and each call of              *)
(* getTextContent visits every node of its tree exactly once.  The walk    *)
(* in progress has pushed no node twice; when it returns it has pushed     *)
(* every node of the screen, in pre-order, and the array holds the         *)
(* lower-cased names the analysis searches.                                 *)
(***************************************************************************)
RECURSIVE NodeIdsPreOrder(_)
NodeIdsPreOrder(node) ==
    IF node = Null THEN <<>>
    ELSE <<node.id>>
         \o flat([c \in 1..Len(childrenOf(node)) |-> NodeIdsPreOrder(childrenOf(node)[c])])

NoRepeat(list) == \A i \in 1..Len(list) : \A j \in 1..Len(list) : list[i] = list[j] => i = j

WalkReturned == walkPc \in {"detectPatterns", "checkMissingEdgeCases"} /\ callStack = <<>>

EveryNodeOnce ==
    /\ NoRepeat(visits)
    /\ WalkReturned =>
        /\ visits = NodeIdsPreOrder(screens[screenIndex])
        /\ join(accumulatedNames, <<" ">>) = textContentOf(screens[screenIndex])

AnalysisResultFields ==
    {"timestamp", "totalScreens", "totalIssues", "criticalCount", "warningCount",
     "infoCount", "screens", "flowIssues"}

ReturnedAnalysisResult ==
    /\ walkPc = "returned"
    /\ backendResult # Null
    /\ DOMAIN backendResult = AnalysisResultFields
    /\ Len(backendResult.screens) = Len(screens)

IsWrapped(content) ==
    /\ content.json /\ content.data.type = "object"
    /\ "screens" \in DOMAIN content.data.fields
    /\ IsScreenList(content.data.fields.screens)

IsBare(content) == content.json /\ IsScreenList(content.data)

ListIn(content) ==
    IF IsWrapped(content) THEN content.data.fields.screens.items ELSE content.data.items

ResultsFor(file) ==
    SelectSeq(resultsDir.files, LAMBDA f : f.name = resultPath(file))[1].content

C22_BothShapesSameResult ==
    \A f \in 1..Len(screenFiles) : \A g \in 1..Len(screenFiles) :
        LET wrapped == readFileSync(screensDir, screenFiles[f])
            bare == readFileSync(screensDir, screenFiles[g])
        IN  (IsWrapped(wrapped) /\ IsBare(bare) /\ ListIn(wrapped) = ListIn(bare)) =>
                /\ Reached(screenFiles[f]) => HasResults(resultPath(screenFiles[f]))
                /\ Reached(screenFiles[g]) => HasResults(resultPath(screenFiles[g]))
                /\ (Reached(screenFiles[f]) /\ Reached(screenFiles[g])) =>
                        /\ WithoutTimestamp(ResultsFor(screenFiles[f]))
                                = WithoutTimestamp(ResultsFor(screenFiles[g]))
                        /\ ResultsFor(screenFiles[f]).totalScreens = Len(ListIn(bare))

\* a run over the empty list in both shapes is over, the wrapped one first
C22_Witness ==
    /\ pc = "done"
    /\ Len(screenFiles) = 2
    /\ IsWrapped(readFileSync(screensDir, screenFiles[1]))
    /\ IsBare(readFileSync(screensDir, screenFiles[2]))
    /\ ListIn(readFileSync(screensDir, screenFiles[1])) = <<>>
    /\ ListIn(readFileSync(screensDir, screenFiles[2])) = <<>>
    /\ Len(resultsDir.files) = 2

(***************************************************************************)
(* C23, as claimed: no report is drawn before an analysis exists.  In      *)
(* every build of the plugin, an 'insert-placeholders' or                  *)
(* 'generate-report' message handled before any 'analysis-complete'        *)
(* creates no node and only notifies the user to run the analysis first;   *)
(* once an 'analysis-complete' with at least one screen has been handled,  *)
(* the handler of the same message goes on to draw, and what it draws      *)
(* after its await is the report (the annotation cards, in the first       *)
(* build; there the words reach the user as an 'error' in the panel).      *)
(***************************************************************************)
ReportRequestHandled ==
    /\ toPlugin # <<>> /\ Head(toPlugin).type \in ReportRequests
    /\ toPlugin' = Tail(toPlugin)

\* the suspended handler h has gone on
Resumed(h) ==
    /\ awaiting' # awaiting
    /\ Len(awaiting') \in {Len(awaiting) - 1, Len(awaiting)}
    /\ SubSeq(awaiting', 1, Len(awaiting) - 1)
            = SubSeq(awaiting, 1, h - 1) \o SubSeq(awaiting, h + 1, Len(awaiting))

ResumedAt(at) == \E h \in 1..Len(awaiting) : awaiting[h].at = at /\ Resumed(h)

NothingDrawn == page' = page /\ awaiting' = awaiting

NotifiedOnly(text) ==
    /\ NothingDrawn
    /\ notifications' = Append(notifications, Notice(text))
    /\ toUi' = toUi

\* the same words shown in the panel, as the 'error' message of the first build
ToldInPanelOnly(text) ==
    /\ NothingDrawn
    /\ notifications' = notifications
    /\ toUi' = Append(toUi, Message("error", [message |-> text]))

Drawn(kind) == Len(page') = Len(page) + 1 /\ page'[Len(page')].kind = kind

BeforeAnyAnalysis == lastAnalysisResult = Null

ScreensWithIssues(result) == Len(SelectSeq(result.screens, LAMBDA a : a.issues # <<>>))

RequestAnswered ==
    LET type == Head(toPlugin).type
    IN  IF pluginVariant = "mappings"
        THEN IF type = "generate-report"
             THEN NotifiedOnly(<<"R","e","p","o","r","t"," ","g","e","n","e","r","a","t","i","o","n"," ","c","o","m","i","n","g"," ","s","o","o","n","!">>)
             ELSE IF BeforeAnyAnalysis
             THEN ToldInPanelOnly(<<"P","l","e","a","s","e"," ","r","u","n"," ","a","n","a","l","y","s","i","s"," ","f","i","r","s","t">>)
             ELSE /\ page' = page
                  /\ IF ScreensWithIssues(lastAnalysisResult) = 0
                     THEN awaiting' = awaiting
                     ELSE Len(awaiting') = Len(awaiting) + 1
        ELSE IF BeforeAnyAnalysis
             THEN NotifiedOnly(pleaseRunAnalysisFirst(pluginVariant))
             ELSE /\ page' = page
                  /\ notifications' = notifications
                  /\ Len(awaiting') = Len(awaiting) + 1

DrawnAfterAwait ==
    /\ ResumedAt("report") =>
            IF fontsLoaded
            THEN /\ Drawn("report")
                 /\ page'[Len(page')].result = lastAnalysisResult
                 /\ pluginVariant # "mappings"
            ELSE page' = page
    /\ ResumedAt("card") =>
            IF fontsLoaded
            THEN Drawn("card") /\ pluginVariant = "mappings"
            ELSE page' = page
    /\ (page # <<>> \/ awaiting # <<>>) => ~BeforeAnyAnalysis

AnalyzeHandled ==
    /\ toPlugin # <<>> /\ Head(toPlugin).type = "analyze"
    /\ toPlugin' = Tail(toPlugin)

RepliedOnce(type) ==
    /\ Len(toUi') = Len(toUi) + 1
    /\ SubSeq(toUi', 1, Len(toUi)) = toUi
    /\ toUi'[Len(toUi')].type = type

C24_EveryAnalyzeAnswered ==
    /\ [][AnalyzeHandled =>
            RepliedOnce(IF selection = <<>> THEN "error" ELSE "screens-exported")]_vars
    /\ (isAnalyzing ~> ~isAnalyzing)

\* the frame was deselected after the click: the request was answered with the
\* error, which ended the analysis in the UI
C24_Witness ==
    /\ ~isAnalyzing /\ toPlugin = <<>> /\ uiResult = Null
    /\ error = [message |-> selectAtLeastOneFrame(pluginVariant)]

(***************************************************************************)
(* C25: in every state of the second build of the UI, under any            *)
(* interleaving of clicks on Analyze with 'screens-exported',              *)
(* 'results-enriched' and 'error' messages, when result is non-null and    *)
(* enrichedScreens is non-empty, enrichedScreens was produced from that    *)
(* same result: the issue cards shown never belong to an earlier run than  *)
(* the summary counts shown.                                               *)
(***************************************************************************)
C25_EnrichedScreensOfShownResult ==
    (uiVariant = "v2" /\ uiResult # Null /\ enrichedScreens # <<>>) =>
        enrichedScreens = enrichScreens(pluginVariant, uiResult)

(***************************************************************************)
(* C26: within one handling of 'insert-placeholders', the report frame and *)
(* the suggested-components frame are built from the same analysis run,    *)
(* even when an 'analysis-complete' message is handled while the handler   *)
(* is suspended at one of its awaits; and inside createReportFrame the     *)
(* result and the screens it renders always belong to the same run.        *)
(***************************************************************************)
C26_InsideCreateReportFrame ==
    \A n \in 1..Len(page) :
        page[n].kind = "report" =>
            page[n].screens = enrichScreens(pluginVariant, page[n].result)

ComponentsOfTheReportsRun ==
    \A h \in 1..Len(awaiting) :
        (awaiting[h].at = "components" /\ Resumed(h) /\ Drawn("components")) =>
            page'[Len(page')].screens = awaiting[h].report.screens

C26_ReportAndComponentsOfOneRun ==
    [][ComponentsOfTheReportsRun]_vars /\ []C26_InsideCreateReportFrame

(***************************************************************************)
(* C27: after any sequence of plugin messages the two cached globals       *)
(* agree: either lastAnalysisResult is null and enrichedScreensCache is    *)
(* empty, or enrichedScreensCache has exactly one entry per entry of       *)
(* lastAnalysisResult.screens, in the same order, with the same screenId   *)
(* and the same number of issues; no message other than                    *)
(* 'analysis-complete' changes either global.  The first build has no      *)
(* enrichedScreensCache and is not covered.                                *)
(***************************************************************************)
HasBothGlobals == pluginVariant # "mappings"

CachesAgree ==
    IF lastAnalysisResult = Null
    THEN enrichedScreensCache = <<>>
    ELSE /\ Len(enrichedScreensCache) = Len(lastAnalysisResult.screens)
         /\ \A s \in 1..Len(enrichedScreensCache) :
                /\ enrichedScreensCache[s].screenId = lastAnalysisResult.screens[s].screenId
                /\ Len(enrichedScreensCache[s].issues)
                        = Len(lastAnalysisResult.screens[s].issues)

AnalysisCompleteIsHandled ==
    /\ toPlugin # <<>> /\ Head(toPlugin).type = "analysis-complete"
    /\ toPlugin' = Tail(toPlugin)

C27_CachedGlobalsAgree ==
    /\ [](HasBothGlobals => CachesAgree)
    /\ [][(lastAnalysisResult' # lastAnalysisResult
                \/ enrichedScreensCache' # enrichedScreensCache)
            => AnalysisCompleteIsHandled]_vars

\* a second analysis, of the drawn report, has replaced both globals after
\* other messages were handled
C27_Witness ==
    /\ HasBothGlobals
    /\ lastAnalysisResult # Null
    /\ Len(enrichedScreensCache) = 1
    /\ enrichedScreensCache[1].screenName = <<"E","d","g","e"," ","C","a","s","e"," ","R","e","p","o","r","t">>
    /\ page # <<>> /\ toPlugin = <<>> /\ awaiting = <<>>

(***************************************************************************)
(* C28: the component lookup resolves an exact name to its own entry.  For *)
(* every entry E of the build's table, the lookup called with E.name, in   *)
(* any letter case, returns E, also when an earlier entry has an alias     *)
(* that is a substring of E.name ("AlertDialog" resolves to AlertDialog,   *)
(* not to Alert).                                                          *)
(***************************************************************************)
OwnEntry(table, name) ==
    SelectSeq(table, LAMBDA c : toLowerCase(c.name) = toLowerCase(name))

C28_ExactNameFindsOwnEntry ==
    (lookup # Null /\ lookup.called) =>
        lookup.info = OwnEntry(componentsOf(pluginVariant), lookup.componentName)

(***************************************************************************)
(* C29: issue ids are unique within one AnalysisResult.  When the input    *)
(* screens have pairwise distinct ids and the edge-case ids of the         *)
(* knowledge base are pairwise distinct across all patterns, no two issues *)
(* of the result share the same id, for ids that may themselves contain    *)
(* dashes.                                                                 *)
(***************************************************************************)
DistinctScreenIds == NoRepeat([s \in 1..Len(screens) |-> screens[s].id])

EdgeCaseIdsOf(table) ==
    flat([p \in 1..Len(table) |->
            [e \in 1..Len(table[p].edgeCases) |-> table[p].edgeCases[e].id]])

IssueIdsOf(result) ==
    LET allIssues == flatMapIssues(result.screens)
    IN  [i \in 1..Len(allIssues) |-> allIssues[i].id]

C29_Backend ==
    (backendResult # Null /\ DistinctScreenIds /\ NoRepeat(EdgeCaseIdsOf(BackendTable)))
        => NoRepeat(IssueIdsOf(backendResult))

C29_Local ==
    (uiResult # Null /\ DistinctScreenIds /\ NoRepeat(EdgeCaseIdsOf(LocalTable)))
        => NoRepeat(IssueIdsOf(uiResult))

C29_IssueIdsUnique == C29_Backend /\ C29_Local

(***************************************************************************)
(* C30: the result mirrors the input list.  For every input screen list,   *)
(* AnalysisResult.screens has exactly one ScreenAnalysis per input screen, *)
(* in input order, with that screen's id and name; totalScreens equals the *)
(* input length; and each ScreenAnalysis.missingStates is the list of its  *)
(* issues' names, in the same order and of the same length as issues.      *)
(***************************************************************************)
MirrorsScreen(analysis, screen) ==
    /\ analysis.screenId = screen.id
    /\ analysis.screenName = screen.name
    /\ Len(analysis.missingStates) = Len(analysis.issues)
    /\ \A i \in 1..Len(analysis.issues) : analysis.missingStates[i] = analysis.issues[i].name

MirrorsInput(result) ==
    /\ Len(result.screens) = Len(screens)
    /\ result.totalScreens = Len(screens)
    /\ \A s \in 1..Len(screens) : MirrorsScreen(result.screens[s], screens[s])

C30_ResultMirrorsInput == \A result \in Results : MirrorsInput(result)

\* both analyzers have analysed two screens of different names, and each has
\* found a screen with several missing states and a screen with none
C30_Witness ==
    /\ backendResult # Null /\ uiResult # Null
    /\ Len(screens) = 2 /\ screens[1].name # screens[2].name
    /\ \E s \in 1..2 : Len(backendResult.screens[s].missingStates) >= 2
    /\ \E s \in 1..2 : Len(uiResult.screens[s].missingStates) >= 2
    /\ \E s \in 1..2 : backendResult.screens[s].issues = <<>>

====
